---- MODULE Spec2Model ----
(***************************************************************************)
(* testdata-ai: the response-normalisation and validation pipeline of      *)
(* TestDataGenerator.generate (testdata_ai/generator.py), the schema       *)
(* registry and validator (testdata_ai/contexts.py).                       *)
(*                                                                         *)
(* Texts are sequences of lexical tokens: a backtick, a whitespace         *)
(* character, a run of letters, or one JSON lexeme.  A string is kept as   *)
(* the sequence of its space-separated words ("atoms").                    *)
(***************************************************************************)
EXTENDS Integers, Sequences, FiniteSets, TLC

(***************************************************************************)
(* JSON values as Python's json module produces them                       *)
(***************************************************************************)
JScalar(t, s) == [t |-> t, s |-> s, k |-> <<>>, v |-> <<>>]
JNull == JScalar("null", <<"null">>)
JBool(b) == JScalar("bool", <<b>>)
JNum(n) == JScalar("num", <<n>>)
JStr(atoms) == JScalar("str", atoms)
JList(items) == [t |-> "list", s |-> <<>>, k |-> <<>>, v |-> items]
\* a dict keeps its keys in insertion order: k[i] is the key of v[i]
JDict(keys, vals) == [t |-> "dict", s |-> <<>>, k |-> keys, v |-> vals]

IsDict(x) == x.t = "dict"
IsList(x) == x.t = "list"

Range(s) == {s[i] : i \in 1..Len(s)}

(***************************************************************************)
(* Lexical tokens of a text                                                *)
(***************************************************************************)
Tok(c, s) == [c |-> c, s |-> s]
\* one backtick character
TICK == Tok("tick", <<"backtick">>)
NL == Tok("ws", <<"\n">>)
SP == Tok("ws", <<" ">>)
Word(w) == Tok("word", <<w>>)
P(ch) == Tok("punct", <<ch>>)

IsSpace(tok) == tok.c = "ws"

(***************************************************************************)
(* contexts.py: the schema registry                                        *)
(***************************************************************************)
\* the ContextSchema dataclass
ContextSchema(description, sample, prompt_hints, category) ==
  [description |-> description, sample |-> sample,
   prompt_hints |-> prompt_hints, category |-> category]

\* CONTEXTS["ecommerce_customer"]
CtxEcommerceCustomer ==
  ContextSchema(
    "e-commerce customer profiles",
    JDict(<<<<"name">>, <<"email">>, <<"age">>, <<"location">>, <<"shopping_behavior">>, <<"joined_date">>, <<"loyalty_tier">>>>, <<JStr(<<"Aisha", "Patel">>), JStr(<<"aisha.patel.2024@gmail.com">>), JNum("28"), JDict(<<<<"city">>, <<"country">>, <<"timezone">>>>, <<JStr(<<"Mumbai">>), JStr(<<"India">>), JStr(<<"Asia/Kolkata">>)>>), JDict(<<<<"frequency">>, <<"avg_order_value">>, <<"preferred_categories">>, <<"device">>, <<"payment_method">>>>, <<JStr(<<"weekly">>), JStr(<<"$45-80">>), JList(<<JStr(<<"electronics">>), JStr(<<"books">>)>>), JStr(<<"mobile">>), JStr(<<"upi">>)>>), JStr(<<"2023-04-15">>), JStr(<<"silver">>)>>),
    <<"Diverse names from different cultures and countries", "Age range: 18-75 years old", "Realistic email addresses (avoid test@test.com patterns)", "Valid location data (city, country, timezone)", "Shopping behavior should match demographics (e.g., students shop differently than seniors)", "Payment methods should match location (e.g., UPI in India, credit cards in USA)">>,
    "ecommerce")

\* CONTEXTS["banking_user"]
CtxBankingUser ==
  ContextSchema(
    "banking customer profiles",
    JDict(<<<<"name">>, <<"email">>, <<"age">>, <<"account_type">>, <<"balance">>, <<"monthly_income">>, <<"credit_score">>, <<"branch">>, <<"account_opened">>>>, <<JStr(<<"Marcus", "Johnson">>), JStr(<<"mjohnson87@outlook.com">>), JNum("42"), JStr(<<"checking">>), JNum("15420.5"), JNum("5200"), JNum("740"), JStr(<<"Austin-Downtown">>), JStr(<<"2021-11-03">>)>>),
    <<"Diverse names from different cultures", "Age range: 18-80 years old", "Realistic email addresses", "Valid account types (checking, savings, business, investment)", "Realistic balance ranges based on account type and customer demographics", "Credit scores: 300-850 range", "Monthly income should correlate with age and account balance">>,
    "finance")

\* CONTEXTS["saas_trial"]
CtxSaasTrial ==
  ContextSchema(
    "SaaS trial user profiles",
    JDict(<<<<"name">>, <<"email">>, <<"company">>, <<"role">>, <<"plan">>, <<"signup_date">>, <<"trial_expires">>, <<"usage_stats">>>>, <<JStr(<<"Sarah", "Chen">>), JStr(<<"sarah.chen@techstartup.io">>), JStr(<<"TechStartup", "Inc">>), JStr(<<"CTO">>), JStr(<<"business">>), JStr(<<"2026-02-01">>), JStr(<<"2026-03-01">>), JDict(<<<<"logins">>, <<"features_used">>>>, <<JNum("12"), JList(<<JStr(<<"api">>), JStr(<<"analytics">>), JStr(<<"integrations">>)>>)>>)>>),
    <<"Business-focused names and emails (company domains)", "Age range: 25-60 years old (professional users)", "Realistic company names and roles", "Trial plan types: free, professional, business, enterprise", "Signup dates within last 3 months", "Trial expiry dates (typically 14-30 days from signup)">>,
    "saas")

\* CONTEXTS["healthcare_patient"]
CtxHealthcarePatient ==
  ContextSchema(
    "healthcare patient records",
    JDict(<<<<"patient_id">>, <<"name">>, <<"date_of_birth">>, <<"gender">>, <<"blood_type">>, <<"primary_diagnosis">>, <<"medications">>, <<"allergies">>, <<"insurance_provider">>, <<"last_visit">>, <<"attending_physician">>>>, <<JStr(<<"PT-2024-00847">>), JStr(<<"Elena", "Rodriguez">>), JStr(<<"1985-06-12">>), JStr(<<"female">>), JStr(<<"A+">>), JStr(<<"Type", "2", "Diabetes">>), JList(<<JStr(<<"Metformin", "500mg">>), JStr(<<"Lisinopril", "10mg">>)>>), JList(<<JStr(<<"Penicillin">>)>>), JStr(<<"Blue", "Cross", "Blue", "Shield">>), JStr(<<"2026-01-20">>), JStr(<<"Dr.", "Kwame", "Asante">>)>>),
    <<"Diverse patient names from different cultures", "Realistic date of birth (age range 0-100)", "Valid blood types: A+, A-, B+, B-, AB+, AB-, O+, O-", "Common real-world diagnoses (diabetes, hypertension, asthma, etc.)", "Medications should match the diagnosis", "Allergies should be common drug/food allergies", "Use realistic insurance provider names">>,
    "healthcare")

\* CONTEXTS["education_student"]
CtxEducationStudent ==
  ContextSchema(
    "university student profiles",
    JDict(<<<<"student_id">>, <<"name">>, <<"email">>, <<"age">>, <<"major">>, <<"minor">>, <<"year">>, <<"gpa">>, <<"enrollment_status">>, <<"courses">>, <<"advisor">>>>, <<JStr(<<"STU-2023-1042">>), JStr(<<"Jordan", "Williams">>), JStr(<<"jwilliams@university.edu">>), JNum("20"), JStr(<<"Computer", "Science">>), JStr(<<"Mathematics">>), JStr(<<"junior">>), JNum("3.45"), JStr(<<"full-time">>), JList(<<JStr(<<"CS301", "Algorithms">>), JStr(<<"MATH240", "Linear", "Algebra">>), JStr(<<"CS350", "Databases">>)>>), JStr(<<"Dr.", "Priya", "Sharma">>)>>),
    <<"Diverse student names from different backgrounds", "Age range: 17-30 for undergrads, 22-45 for graduate students", "University email addresses (.edu domain)", "Realistic majors and minors that pair logically", "Year: freshman, sophomore, junior, senior, or graduate", "GPA range: 0.0-4.0, normally distributed around 3.0", "Course codes should follow a realistic format (dept + number)">>,
    "education")

\* CONTEXTS["b2b_lead"]
CtxB2bLead ==
  ContextSchema(
    "B2B sales lead profiles",
    JDict(<<<<"lead_id">>, <<"contact_name">>, <<"email">>, <<"phone">>, <<"company">>, <<"industry">>, <<"company_size">>, <<"job_title">>, <<"lead_source">>, <<"lead_score">>, <<"deal_value">>, <<"stage">>, <<"notes">>>>, <<JStr(<<"LD-2026-0293">>), JStr(<<"David", "Nguyen">>), JStr(<<"d.nguyen@acmelogistics.com">>), JStr(<<"+1-312-555-0184">>), JStr(<<"Acme", "Logistics">>), JStr(<<"Supply", "Chain", "&", "Logistics">>), JStr(<<"200-500">>), JStr(<<"VP", "of", "Operations">>), JStr(<<"webinar">>), JNum("72"), JNum("48000"), JStr(<<"qualified">>), JStr(<<"Interested", "in", "warehouse", "automation.", "Follow", "up", "after", "Q1", "budget", "review.">>)>>),
    <<"Professional names with company email domains", "Realistic company names across industries", "Industries: tech, healthcare, logistics, finance, manufacturing, retail, etc.", "Company size brackets: 1-10, 11-50, 51-200, 200-500, 500-1000, 1000+", "Job titles should reflect decision-makers (VP, Director, Head of, Manager)", "Lead sources: webinar, referral, inbound, cold outreach, trade show, content download", "Lead scores: 0-100, higher means more qualified", "Stages: new, contacted, qualified, proposal, negotiation, closed-won, closed-lost">>,
    "b2b")

\* CONTEXTS["hr_employee"]
CtxHrEmployee ==
  ContextSchema(
    "HR employee records",
    JDict(<<<<"employee_id">>, <<"name">>, <<"email">>, <<"department">>, <<"job_title">>, <<"hire_date">>, <<"salary">>, <<"employment_type">>, <<"manager">>, <<"location">>, <<"performance_rating">>>>, <<JStr(<<"EMP-004231">>), JStr(<<"Fatima", "Al-Rashid">>), JStr(<<"f.alrashid@globecorp.com">>), JStr(<<"Engineering">>), JStr(<<"Senior", "Software", "Engineer">>), JStr(<<"2022-03-14">>), JNum("125000"), JStr(<<"full-time">>), JStr(<<"Tomoko", "Hayashi">>), JStr(<<"San", "Francisco,", "CA">>), JNum("4")>>),
    <<"Diverse employee names reflecting a global workforce", "Company email addresses matching a consistent domain", "Departments: Engineering, Sales, Marketing, HR, Finance, Operations, Legal, Product", "Job titles should match department and seniority level", "Hire dates within the last 0-20 years", "Salary should correlate with role seniority and department", "Employment types: full-time, part-time, contract, intern", "Performance ratings: 1-5 scale, normally distributed around 3">>,
    "hr")

\* CONTEXTS["real_estate_listing"]
CtxRealEstateListing ==
  ContextSchema(
    "real estate property listings",
    JDict(<<<<"listing_id">>, <<"address">>, <<"property_type">>, <<"bedrooms">>, <<"bathrooms">>, <<"sqft">>, <<"year_built">>, <<"list_price">>, <<"status">>, <<"days_on_market">>, <<"agent">>, <<"features">>>>, <<JStr(<<"MLS-782451">>), JStr(<<"1247", "Oak", "Street,", "Portland,", "OR", "97205">>), JStr(<<"single-family">>), JNum("3"), JNum("2"), JNum("1850"), JNum("1998"), JNum("485000"), JStr(<<"active">>), JNum("14"), JStr(<<"Rebecca", "Torres">>), JList(<<JStr(<<"hardwood", "floors">>), JStr(<<"updated", "kitchen">>), JStr(<<"fenced", "yard">>)>>)>>),
    <<"Realistic US addresses with valid city/state/zip combinations", "Property types: single-family, condo, townhouse, multi-family, land", "Bedrooms: 1-6, bathrooms: 1-4 (should correlate with sqft)", "Square footage should match property type (condos smaller, houses larger)", "Year built: 1900-2026", "List prices should match location and property characteristics", "Status: active, pending, sold, withdrawn", "Features should be realistic and match the property type">>,
    "real_estate")

\* CONTEXTS["iot_device"]
CtxIotDevice ==
  ContextSchema(
    "IoT device telemetry records",
    JDict(<<<<"device_id">>, <<"device_type">>, <<"manufacturer">>, <<"firmware_version">>, <<"location">>, <<"status">>, <<"battery_level">>, <<"last_reading">>, <<"alert_threshold">>, <<"installed_date">>>>, <<JStr(<<"IOT-TH-00412">>), JStr(<<"temperature_humidity_sensor">>), JStr(<<"SenseTech">>), JStr(<<"2.4.1">>), JStr(<<"Warehouse", "B", "-", "Aisle", "3">>), JStr(<<"online">>), JNum("87"), JDict(<<<<"temperature_c">>, <<"humidity_pct">>, <<"timestamp">>>>, <<JNum("22.4"), JNum("58.1"), JStr(<<"2026-02-15T08:32:00Z">>)>>), JDict(<<<<"temp_max">>, <<"humidity_max">>>>, <<JNum("30.0"), JNum("70.0")>>), JStr(<<"2025-06-10">>)>>),
    <<"Device types: temperature_humidity_sensor, motion_detector, smart_meter, air_quality, pressure_gauge", "Realistic manufacturer names for industrial IoT", "Firmware versions in semver format (major.minor.patch)", "Status: online, offline, maintenance, error", "Battery levels: 0-100, some devices should be low", "Sensor readings should be physically plausible for the device type", "Timestamps in ISO 8601 format with timezone">>,
    "iot")

\* CONTEXTS["social_media_profile"]
CtxSocialMediaProfile ==
  ContextSchema(
    "social media user profiles",
    JDict(<<<<"username">>, <<"display_name">>, <<"bio">>, <<"followers">>, <<"following">>, <<"posts">>, <<"verified">>, <<"joined">>, <<"category">>, <<"engagement_rate">>, <<"top_hashtags">>>>, <<JStr(<<"travel_with_miko">>), JStr(<<"Miko", "Tanaka">>), JStr(<<"Exploring", "the", "world", "one", "city", "at", "a", "time.", "Tokyo", "->", "NYC", "->", "???">>), JNum("12400"), JNum("843"), JNum("327"), JBool("false"), JStr(<<"2023-08-15">>), JStr(<<"travel">>), JNum("3.2"), JList(<<JStr(<<"#wanderlust">>), JStr(<<"#streetphotography">>), JStr(<<"#foodie">>)>>)>>),
    <<"Creative usernames that feel organic (underscores, numbers, abbreviations)", "Bios should feel authentic and match the category", "Follower counts: realistic distribution (most users < 5k, some 5k-100k, rare > 100k)", "Following count usually lower than or comparable to followers for larger accounts", "Categories: travel, food, fitness, tech, fashion, art, music, gaming, lifestyle", "Engagement rates: 1-8% is typical, higher for smaller accounts", "Hashtags should match the profile category">>,
    "social_media")

\* CONTEXTS["travel_booking"]
CtxTravelBooking ==
  ContextSchema(
    "travel booking records",
    JDict(<<<<"booking_id">>, <<"passenger_name">>, <<"email">>, <<"trip_type">>, <<"origin">>, <<"destination">>, <<"departure_date">>, <<"return_date">>, <<"cabin_class">>, <<"total_price">>, <<"currency">>, <<"travelers">>, <<"status">>, <<"add_ons">>>>, <<JStr(<<"BK-2026-18743">>), JStr(<<"Carlos", "Mendez">>), JStr(<<"carlos.mendez@email.com">>), JStr(<<"round-trip">>), JStr(<<"LAX">>), JStr(<<"NRT">>), JStr(<<"2026-04-10">>), JStr(<<"2026-04-24">>), JStr(<<"economy">>), JNum("1245.0"), JStr(<<"USD">>), JNum("2"), JStr(<<"confirmed">>), JList(<<JStr(<<"extra_baggage">>), JStr(<<"travel_insurance">>)>>)>>),
    <<"Diverse passenger names from different nationalities", "Trip types: one-way, round-trip, multi-city", "Use real IATA airport codes (LAX, JFK, LHR, NRT, CDG, etc.)", "Departure dates within the next 6 months", "Return dates after departure (duration 2-30 days)", "Cabin classes: economy, premium_economy, business, first", "Prices should match route distance and cabin class", "Status: confirmed, pending, cancelled, checked-in">>,
    "travel")

\* CONTEXTS["restaurant_order"]
CtxRestaurantOrder ==
  ContextSchema(
    "restaurant / food delivery orders",
    JDict(<<<<"order_id">>, <<"customer_name">>, <<"restaurant">>, <<"cuisine">>, <<"items">>, <<"subtotal">>, <<"delivery_fee">>, <<"tip">>, <<"total">>, <<"payment_method">>, <<"order_type">>, <<"status">>, <<"ordered_at">>>>, <<JStr(<<"ORD-20260215-0042">>), JStr(<<"Lisa", "Park">>), JStr(<<"Nonna's", "Trattoria">>), JStr(<<"Italian">>), JList(<<JDict(<<<<"name">>, <<"qty">>, <<"price">>>>, <<JStr(<<"Margherita", "Pizza">>), JNum("1"), JNum("14.5")>>), JDict(<<<<"name">>, <<"qty">>, <<"price">>>>, <<JStr(<<"Caesar", "Salad">>), JNum("1"), JNum("9.0")>>), JDict(<<<<"name">>, <<"qty">>, <<"price">>>>, <<JStr(<<"Tiramisu">>), JNum("2"), JNum("7.5")>>)>>), JNum("38.5"), JNum("3.99"), JNum("6.0"), JNum("48.49"), JStr(<<"credit_card">>), JStr(<<"delivery">>), JStr(<<"delivered">>), JStr(<<"2026-02-15T19:22:00Z">>)>>),
    <<"Diverse customer names", "Creative but realistic restaurant names matching the cuisine", "Cuisines: Italian, Japanese, Mexican, Indian, Chinese, Thai, American, Mediterranean, Korean", "Menu items should match the cuisine and restaurant style", "Item prices: appetizers $5-12, mains $10-25, desserts $6-12, drinks $3-8", "Subtotal must equal sum of (qty * price) for all items", "Order types: delivery, pickup, dine-in", "Status: placed, preparing, out_for_delivery, delivered, cancelled">>,
    "food")

\* CONTEXTS["logistics_shipment"]
CtxLogisticsShipment ==
  ContextSchema(
    "logistics shipment tracking records",
    JDict(<<<<"tracking_number">>, <<"carrier">>, <<"origin">>, <<"destination">>, <<"ship_date">>, <<"estimated_delivery">>, <<"actual_delivery">>, <<"weight_kg">>, <<"dimensions_cm">>, <<"contents">>, <<"status">>, <<"last_checkpoint">>>>, <<JStr(<<"TRK-9827461053">>), JStr(<<"FastFreight", "Global">>), JDict(<<<<"city">>, <<"country">>>>, <<JStr(<<"Shenzhen">>), JStr(<<"China">>)>>), JDict(<<<<"city">>, <<"country">>>>, <<JStr(<<"Chicago">>), JStr(<<"United", "States">>)>>), JStr(<<"2026-01-28">>), JStr(<<"2026-02-18">>), JNull, JNum("245.0"), JDict(<<<<"length">>, <<"width">>, <<"height">>>>, <<JNum("120"), JNum("80"), JNum("90")>>), JStr(<<"Consumer", "Electronics">>), JStr(<<"in_transit">>), JStr(<<"Port", "of", "Long", "Beach,", "CA">>)>>),
    <<"Tracking numbers: alphanumeric, 10-15 characters", "Realistic carrier names (mix of real-sounding freight companies)", "International routes with realistic origin/destination pairs", "Ship dates within the last 30 days", "Delivery estimates: 2-5 days domestic, 7-30 days international", "actual_delivery is null for in-transit shipments", "Weight and dimensions should match the contents category", "Status: pending_pickup, picked_up, in_transit, customs_hold, out_for_delivery, delivered, exception">>,
    "logistics")

\* the keys of CONTEXTS, in insertion order
ContextNames ==
  <<"ecommerce_customer",
    "banking_user",
    "saas_trial",
    "healthcare_patient",
    "education_student",
    "b2b_lead",
    "hr_employee",
    "real_estate_listing",
    "iot_device",
    "social_media_profile",
    "travel_booking",
    "restaurant_order",
    "logistics_shipment">>

\* the registry
CONTEXTS ==
  [n \in {ContextNames[i] : i \in 1..Len(ContextNames)} |->
     CASE n = "ecommerce_customer" -> CtxEcommerceCustomer
       [] n = "banking_user" -> CtxBankingUser
       [] n = "saas_trial" -> CtxSaasTrial
       [] n = "healthcare_patient" -> CtxHealthcarePatient
       [] n = "education_student" -> CtxEducationStudent
       [] n = "b2b_lead" -> CtxB2bLead
       [] n = "hr_employee" -> CtxHrEmployee
       [] n = "real_estate_listing" -> CtxRealEstateListing
       [] n = "iot_device" -> CtxIotDevice
       [] n = "social_media_profile" -> CtxSocialMediaProfile
       [] n = "travel_booking" -> CtxTravelBooking
       [] n = "restaurant_order" -> CtxRestaurantOrder
       [] n = "logistics_shipment" -> CtxLogisticsShipment]

(***************************************************************************)
(* The state of the program                                                *)
(***************************************************************************)
VARIABLE
  registry          \* contexts.py: the module-level dict CONTEXTS

\* config.py:15-18
DEFAULT_MODELS ==
  [openai |-> "gpt-4o-mini", anthropic |-> "claude-haiku-4-5-20251001"]

\* config.py:28  max_tokens: int = 2000
DefaultMaxTokens == 2000

\* TestDataGenerator.__init__: self.config and the provider built from it
\* (generator.py:66-88); the temperature is kept as its decimal text
Generator(name, model, temperature, max_tokens) ==
  [config |-> [provider |-> name, model |-> model,
               temperature |-> temperature, max_tokens |-> max_tokens],
   provider |-> [cls |-> name, model |-> model,
                 temperature |-> temperature, max_tokens |-> max_tokens]]

\* TestDataGenerator() with the defaults of config.py
DefaultGenerator ==
  Generator("openai", DEFAULT_MODELS["openai"], "0.7", DefaultMaxTokens)

\* no command is running, no spinner exists, no concurrent calls are in flight
NoCli == [pc |-> "none"]
NoFile == [written |-> FALSE, text |-> <<>>]
NoSpinner == [pc |-> "none"]
NoCalls == <<>>


(***************************************************************************)
(* json.dumps and json.loads (Python standard library), on token texts     *)
(***************************************************************************)
RECURSIVE Dumps(_), DumpsItems(_, _), DumpsMembers(_, _, _)
\* json.dumps(x) with the default separators ", " and ": "
Dumps(x) ==
  CASE x.t = "list" -> <<P("[")>> \o DumpsItems(x.v, 1) \o <<P("]")>>
    [] x.t = "dict" -> <<P("{")>> \o DumpsMembers(x.k, x.v, 1) \o <<P("}")>>
    [] x.t = "str" -> <<Tok("str", x.s)>>
    [] x.t = "num" -> <<Tok("num", x.s)>>
    [] OTHER -> <<Tok("lit", x.s)>>

DumpsItems(items, i) ==
  IF i > Len(items) THEN <<>>
  ELSE Dumps(items[i])
       \o (IF i < Len(items) THEN <<P(","), SP>> ELSE <<>>)
       \o DumpsItems(items, i + 1)

DumpsMembers(keys, vals, i) ==
  IF i > Len(keys) THEN <<>>
  ELSE <<Tok("str", keys[i]), P(":"), SP>> \o Dumps(vals[i])
       \o (IF i < Len(keys) THEN <<P(","), SP>> ELSE <<>>)
       \o DumpsMembers(keys, vals, i + 1)

\* d[key] = val on a Python dict: a key already present keeps its position
DictSet(keys, vals, key, val) ==
  IF key \in Range(keys)
  THEN [k |-> keys,
        v |-> [i \in 1..Len(vals) |-> IF keys[i] = key THEN val ELSE vals[i]]]
  ELSE [k |-> Append(keys, key), v |-> Append(vals, val)]

ParseFail == [ok |-> FALSE, val |-> JNull, next |-> 0]
ParseOk(val, next) == [ok |-> TRUE, val |-> val, next |-> next]

RECURSIVE SkipWs(_, _)
SkipWs(t, i) == IF i <= Len(t) /\ IsSpace(t[i]) THEN SkipWs(t, i + 1) ELSE i

At(t, i, tok) == i <= Len(t) /\ t[i] = tok

RECURSIVE ParseValue(_, _), ParseItems(_, _, _), ParseMembers(_, _, _, _)
\* one JSON value starting at or after position i
ParseValue(t, i) ==
  LET j == SkipWs(t, i) IN
  IF j > Len(t) THEN ParseFail
  ELSE CASE t[j].c = "str" -> ParseOk(JStr(t[j].s), j + 1)
         [] t[j].c = "num" -> ParseOk(JNum(t[j].s[1]), j + 1)
         [] t[j].c = "lit" ->
              ParseOk(IF t[j].s = <<"null">> THEN JNull ELSE JBool(t[j].s[1]), j + 1)
         [] t[j] = P("[") ->
              LET k == SkipWs(t, j + 1) IN
              IF At(t, k, P("]")) THEN ParseOk(JList(<<>>), k + 1)
              ELSE ParseItems(t, k, <<>>)
         [] t[j] = P("{") ->
              LET k == SkipWs(t, j + 1) IN
              IF At(t, k, P("}")) THEN ParseOk(JDict(<<>>, <<>>), k + 1)
              ELSE ParseMembers(t, k, <<>>, <<>>)
         [] OTHER -> ParseFail

\* after "[" or ",": a value, then "," or "]"
ParseItems(t, i, acc) ==
  LET r == ParseValue(t, i) IN
  IF ~r.ok THEN ParseFail
  ELSE LET k == SkipWs(t, r.next) IN
       IF At(t, k, P(",")) THEN ParseItems(t, k + 1, Append(acc, r.val))
       ELSE IF At(t, k, P("]")) THEN ParseOk(JList(Append(acc, r.val)), k + 1)
       ELSE ParseFail

\* after "{" or ",": a string key, ":", a value, then "," or "}"
ParseMembers(t, i, keys, vals) ==
  LET j == SkipWs(t, i) IN
  IF ~(j <= Len(t) /\ t[j].c = "str") THEN ParseFail
  ELSE LET c == SkipWs(t, j + 1) IN
       IF ~At(t, c, P(":")) THEN ParseFail
       ELSE LET r == ParseValue(t, c + 1) IN
            IF ~r.ok THEN ParseFail
            ELSE LET d == DictSet(keys, vals, t[j].s, r.val)
                     e == SkipWs(t, r.next)
                 IN IF At(t, e, P(",")) THEN ParseMembers(t, e + 1, d.k, d.v)
                    ELSE IF At(t, e, P("}")) THEN ParseOk(JDict(d.k, d.v), e + 1)
                    ELSE ParseFail

\* json.loads(t): one value, then only whitespace; otherwise JSONDecodeError
Loads(t) ==
  LET r == ParseValue(t, 1) IN
  IF r.ok /\ SkipWs(t, r.next) > Len(t) THEN r ELSE ParseFail

(***************************************************************************)
(* generator.py: _strip_markdown_fences                                    *)
(***************************************************************************)
RECURSIVE LStrip(_)
LStrip(t) == IF t # <<>> /\ IsSpace(Head(t)) THEN LStrip(Tail(t)) ELSE t

RECURSIVE RStrip(_)
RStrip(t) ==
  IF t # <<>> /\ IsSpace(t[Len(t)]) THEN RStrip(SubSeq(t, 1, Len(t) - 1)) ELSE t

\* mutant of Strip: whitespace is taken from the left end only (lstrip)
Strip_LeftOnly(t) == LStrip(t)

\* str.strip()
Strip(t) == RStrip(LStrip(t))

TicksAt(t, i) == i + 2 <= Len(t) /\ \A j \in i..(i + 2) : t[j] = TICK

\* mutant of OpeningEnd: only a bare opening marker or one tagged json in
\* lower case opens a fence
OpeningEnd_LowerCaseTag(t) ==
  IF TicksAt(t, 1) /\ Len(t) >= 4 /\ t[4] = NL THEN 4
  ELSE IF TicksAt(t, 1) /\ Len(t) >= 5 /\ t[4] = Word("json") /\ t[5] = NL THEN 5
  ELSE 0

\* the optional opening group of the pattern, three backticks, [^\n]* and \n,
\* anchored at the start: the index of the newline ending the opening line, 0 when
\* the optional group matches nothing
OpeningEnd(t) ==
  IF TicksAt(t, 1) /\ \E j \in 4..Len(t) : t[j] = NL
  THEN CHOOSE j \in 4..Len(t) : t[j] = NL /\ \A m \in 4..(j - 1) : t[m] # NL
  ELSE 0

\* mutant of ClosingMatches: a run of one or more backticks closes a fence
ClosingMatches_AnyTicks(t, p) ==
  \/ p = Len(t) + 1
  \/ p = Len(t) /\ t[p] = NL
  \/ /\ p <= Len(t) /\ t[p] = TICK
     /\ \A j \in (p + 1)..Len(t) : IsSpace(t[j]) \/ t[j] = TICK
     /\ \A j \in (p + 1)..Len(t) :
          IsSpace(t[j]) => \A m \in j..Len(t) : IsSpace(t[m])

\* the optional closing group (three backticks, \s*) and $ match from index p: nothing is left, or only the final
\* newline, or a fence followed by whitespace up to the end
ClosingMatches(t, p) ==
  \/ p = Len(t) + 1
  \/ p = Len(t) /\ t[p] = NL
  \/ TicksAt(t, p) /\ \A j \in (p + 3)..Len(t) : IsSpace(t[j])

\* _MARKDOWN_FENCE_RE.match(t).group(1): the lazy (.*?) ends at the first
\* index from which the closing part matches
FenceGroup1(t) ==
  LET start == OpeningEnd(t) + 1
      stop == CHOOSE p \in start..(Len(t) + 1) :
                /\ ClosingMatches(t, p)
                /\ \A q \in start..(p - 1) : ~ClosingMatches(t, q)
  IN SubSeq(t, start, stop - 1)

_strip_markdown_fences(text) == Strip(FenceGroup1(Strip(text)))

(***************************************************************************)
(* contexts.py: lookup and validation                                      *)
(***************************************************************************)
Exc(type, msg, arg, names) ==
  [type |-> type, msg |-> msg, arg |-> arg, names |-> names,
   invalid_records |-> <<>>]
NoExc == Exc("", "", 0, <<>>)

\* ContextSchema.fields
fields(schema) == schema.sample.k

\* mutant of get_context_schema: the error names the rejected context but does
\* not list the registered ones
get_context_schema_NoList(context) ==
  IF context \notin DOMAIN CONTEXTS
  THEN [ok |-> FALSE, schema |-> ContextSchema("", JDict(<<>>, <<>>), <<>>, ""),
        exc |-> Exc("ValueError", "Unknown context", 0, <<context>>)]
  ELSE [ok |-> TRUE, schema |-> CONTEXTS[context], exc |-> NoExc]

\* get_context_schema(context): the schema the registry holds, or the
\* ValueError it raises
get_context_schema(context) ==
  IF context \notin DOMAIN registry
  THEN [ok |-> FALSE, schema |-> ContextSchema("", JDict(<<>>, <<>>), <<>>, ""),
        exc |-> Exc("ValueError", "Unknown context", 0,
                    <<context>> \o ContextNames)]
  ELSE [ok |-> TRUE, schema |-> registry[context], exc |-> NoExc]

\* list_contexts(category); category "None" stands for the default None
list_contexts(category) ==
  IF category = "None" THEN ContextNames
  ELSE SelectSeq(ContextNames, LAMBDA name : CONTEXTS[name].category = category)

\* every pair <<f, a>> of a registry field name f and a word a of the model's
\* strings with f a proper substring of a
ProperSubstrings ==
  { <<"age", "agent">>, <<"age", "engagement_rate">>, <<"age", "extra_baggage">>,
    <<"age", "manager">>, <<"age", "stage">>, <<"age", "usage_stats">>,
    <<"company", "company_size">>, <<"email", "carlos.mendez@email.com">>,
    <<"features", "features_used">>, <<"joined", "joined_date">>,
    <<"name", "contact_name">>, <<"name", "customer_name">>,
    <<"name", "display_name">>, <<"name", "passenger_name">>,
    <<"name", "username">>, <<"status", "enrollment_status">>,
    <<"total", "subtotal">>, <<"total", "total_price">>,
    <<"year", "year_built">> }

\* Python's  f in record  raises TypeError on int, float, bool and None
InRaises(record) == record.t \in {"num", "bool", "null"}

\* bool(x) is False
Falsy(x) ==
  \/ x.t = "null"
  \/ x.t = "bool" /\ x.s = <<"false">>
  \/ x.t = "num" /\ x.s \in {<<"0">>, <<"0.0">>}
  \/ x.t = "str" /\ x.s = <<>>
  \/ x.t \in {"list", "dict"} /\ x.v = <<>>

\* mutant of In: a key of a dict counts only when its value is truthy, as
\* record.get(f) in place of  f in record  would have it
In_Truthy(f, record) ==
  CASE record.t = "dict" ->
         \E i \in 1..Len(record.k) : record.k[i] = f /\ ~Falsy(record.v[i])
    [] record.t = "list" -> \E i \in 1..Len(record.v) : record.v[i] = JStr(f)
    [] record.t = "str" ->
         \E i \in 1..Len(record.s) :
            \/ record.s[i] = f[1]
            \/ <<f[1], record.s[i]>> \in ProperSubstrings
    [] OTHER -> FALSE

\* Python's  f in record  for a one-word string f: key membership on a dict,
\* element equality on a list, substring search on a str
In(f, record) ==
  CASE record.t = "dict" -> f \in Range(record.k)
    [] record.t = "list" -> \E i \in 1..Len(record.v) : record.v[i] = JStr(f)
    [] record.t = "str" ->
         \E i \in 1..Len(record.s) :
            \/ record.s[i] = f[1]
            \/ <<f[1], record.s[i]>> \in ProperSubstrings
    [] OTHER -> FALSE

\* ContextSchema.validate_record raises iff all() evaluates  f in record  on a
\* record without __contains__
validate_record_raises(schema, record) ==
  fields(schema) # <<>> /\ InRaises(record)

\* ContextSchema.validate_record
validate_record(schema, record) ==
  \A i \in 1..Len(fields(schema)) : In(fields(schema)[i], record)

\* ContextSchema.missing_fields
missing_fields(schema, record) ==
  SelectSeq(fields(schema), LAMBDA f : ~In(f, record))

RECURSIVE InvalidFrom_OneBased(_, _, _)
\* mutant of InvalidFrom: record_index counts from 1, as enumerate(records, 1)
\* would have it
InvalidFrom_OneBased(schema, records, i) ==
  IF i > Len(records) THEN <<>>
  ELSE (IF ~validate_record(schema, records[i])
        THEN << [record_index |-> i,
                 missing_fields |-> missing_fields(schema, records[i])] >>
        ELSE <<>>)
       \o InvalidFrom_OneBased(schema, records, i + 1)

RECURSIVE InvalidFrom(_, _, _)
\* the list comprehension of validate_generated_data, from position i (1-based)
InvalidFrom(schema, records, i) ==
  IF i > Len(records) THEN <<>>
  ELSE (IF ~validate_record(schema, records[i])
        THEN << [record_index |-> i - 1,
                 missing_fields |-> missing_fields(schema, records[i])] >>
        ELSE <<>>)
       \o InvalidFrom(schema, records, i + 1)

\* validate_generated_data(context, records): the issue list, or the exception
validate_generated_data(context, records) ==
  LET got == get_context_schema(context) IN
  IF ~got.ok THEN [exc |-> got.exc, invalid |-> <<>>]
  ELSE IF \E i \in 1..Len(records) : validate_record_raises(got.schema, records[i])
       THEN [exc |-> Exc("TypeError", "argument is not iterable", 0, <<>>),
             invalid |-> <<>>]
       ELSE [exc |-> NoExc, invalid |-> InvalidFrom(got.schema, records, 1)]

(***************************************************************************)
(* prompts.py and ai_providers.py                                          *)
(***************************************************************************)
NoPrompt ==
  [count |-> 0, description |-> "", hints |-> <<>>, sample_json |-> <<>>]

\* mutant of get_prompt: the lookup's error is replaced by an error of its own
get_prompt_Wrapping(context, count) ==
  LET got == get_context_schema(context) IN
  IF ~got.ok
  THEN [ok |-> FALSE,
        exc |-> Exc("ValueError", "cannot build prompt", 0, <<context>>),
        prompt |-> NoPrompt]
  ELSE [ok |-> TRUE, exc |-> NoExc,
        prompt |-> [count |-> count,
                    description |-> got.schema.description,
                    hints |-> got.schema.prompt_hints,
                    sample_json |-> Dumps(got.schema.sample)]]

\* get_prompt(context, count): the prompt, or the lookup's ValueError.  The
\* prompt is kept as the values the f-string embeds.
get_prompt(context, count) ==
  LET got == get_context_schema(context) IN
  IF ~got.ok
  THEN [ok |-> FALSE, exc |-> got.exc,
        prompt |-> NoPrompt]
  ELSE [ok |-> TRUE, exc |-> NoExc,
        prompt |-> [count |-> count,
                    description |-> got.schema.description,
                    hints |-> got.schema.prompt_hints,
                    sample_json |-> Dumps(got.schema.sample)]]

\* the RuntimeErrors AIProvider.generate raises: timeout, other API failure,
\* empty response
ProviderErrors ==
  { Exc("RuntimeError", "timed out", 0, <<>>),
    Exc("RuntimeError", "Failed to generate data", 0, <<>>),
    Exc("RuntimeError", "returned an empty response", 0, <<>>) }

(***************************************************************************)
(* Bounds of the model                                                     *)
(***************************************************************************)
\* requested counts range over -MaxCount..MaxCount and LargeCount + 1
MaxCount == 2
\* a generated response holds record lists of at most MaxRecs records
MaxRecs == 2
\* calls name one of the first NumContexts registry contexts, or an unknown one
NumContexts == 3
\* generator.py:117  count > 50 warns about token limits
LargeCount == 50
\* generator.py:134  response[:200]
PreviewLen == 200

Counts == ((0 - MaxCount)..MaxCount) \cup {LargeCount + 1}
CallContexts ==
  {ContextNames[i] : i \in 1..NumContexts} \cup {"nonexistent"}

(***************************************************************************)
(* The texts a provider may answer with, for a call about context c        *)
(***************************************************************************)
SeqsUpTo(S, n) == UNION {[1..m -> S] : m \in 0..n}

\* records a response may hold: the sample itself, a record with the first
\* field only, strings, a list of strings, a number
RecordCandidates(c) ==
  LET sample == CONTEXTS[c].sample IN
  { sample,
    JDict(<<sample.k[1]>>, <<JStr(<<"Test">>)>>),
    JStr(<<"hello">>),
    JStr([i \in 1..Len(sample.k) |-> sample.k[i][1]]),
    JList([i \in 1..Len(sample.k) |-> JStr(sample.k[i])]),
    JNum("42") }

\* the JSON documents: a bare array, an array under "data", an array under an
\* arbitrary key after a scalar entry and before another array, and single
\* values
ResponseValues(c) ==
  LET lists == SeqsUpTo(RecordCandidates(c), MaxRecs) IN
       {JList(l) : l \in lists}
  \cup {JDict(<< <<"data">> >>, <<JList(l)>>) : l \in lists}
  \cup {JDict(<< <<"count">>, <<"customers">>, <<"extra">> >>,
              <<JNum("2"), JList(l),
                JList(<<JDict(<< <<"b">> >>, <<JNum("2")>>)>>)>>) : l \in lists}
  \cup RecordCandidates(c)
  \cup {JNull, JBool("true"), JDict(<<>>, <<>>)}

FENCE == <<TICK, TICK, TICK>>

\* a text wrapped in a complete, truncated or one-line fence, or in whitespace
FenceVariants(b) ==
  { FENCE \o <<Word("json"), NL>> \o b \o <<NL>> \o FENCE,
    FENCE \o <<NL>> \o b \o <<NL>> \o FENCE,
    FENCE \o <<SP, Word("JSON"), NL>> \o b \o <<NL>> \o FENCE \o <<SP, SP, NL>>,
    FENCE \o <<Word("json"), NL>> \o b,
    b \o <<NL>> \o FENCE,
    FENCE \o <<Word("json")>> \o b \o FENCE,
    <<SP, NL>> \o b \o <<NL>> }

\* texts json.loads rejects
MalformedTexts(c) ==
  LET b == Dumps(JList(<<CONTEXTS[c].sample>>)) IN
  { <<Word("this"), SP, Word("is"), SP, Word("not"), SP, Word("json"), SP,
      Word("at"), SP, Word("all")>>,
    <<>>,
    SubSeq(b, 1, Len(b) - 1),
    b \o b }

ResponseTexts(c) ==
  LET sample == CONTEXTS[c].sample IN
       {Dumps(x) : x \in ResponseValues(c)}
  \cup FenceVariants(Dumps(JDict(<< <<"data">> >>, <<JList(<<sample>>)>>)))
  \cup FenceVariants(Dumps(JList(<<sample, JStr(<<"hello">>)>>)))
  \cup MalformedTexts(c)

(***************************************************************************)
(* generator.py: TestDataGenerator.generate, one call at a time            *)
(***************************************************************************)
VARIABLES
  pc,               \* where the call stands: idle, count, prompt, provider,
                    \* parse, normalize, validate, done
  context, count, validate,   \* the arguments of the call
  prompt,           \* the local prompt
  raw,              \* the text self.provider.generate returned
  response,         \* the local response: raw without its fences
  data,             \* the local data: json.loads(response)
  records,          \* the local records
  outcome,          \* what the call returned or raised
  provider_calls,   \* invocations of self.provider.generate in this call
  validator_calls,  \* invocations of validate_generated_data in this call
  log,              \* the events handed to the module's logger in this call
  trace,            \* the steps of generate executed in this call, in order
  gen,              \* the TestDataGenerator: its config and its provider
  cli,              \* cli.py: the generate command in progress
  stdout, stderr,   \* what the command has written to its two streams
  out_file,         \* what the command has written to the --output file
  spinner,          \* cli.py: a _Spinner, its stop flag and its thread
  calls             \* the locals of the generate calls running concurrently

vars ==
  <<pc, context, count, validate, prompt, raw, response, data, records,
    outcome, provider_calls, validator_calls, log, trace,
    registry, gen, cli, stdout, stderr, out_file, spinner, calls>>

\* what lies outside a generate call and outside the contexts module
others == <<cli, stdout, stderr, out_file, spinner, calls>>

NothingElse ==
  /\ cli = NoCli
  /\ stdout = <<>>
  /\ stderr = <<>>
  /\ out_file = NoFile
  /\ spinner = NoSpinner
  /\ calls = NoCalls

NoOutcome == [kind |-> "none", value |-> <<>>, exc |-> NoExc]
Returned(value) == [kind |-> "return", value |-> value, exc |-> NoExc]
Raised(exc) == [kind |-> "raise", value |-> <<>>, exc |-> exc]

LogEvent(level, msg, n, m, text) ==
  [level |-> level, msg |-> msg, n |-> n, m |-> m, text |-> text]

\* the ValidationError a failed validation raises: a ValueError that keeps the
\* issue list as invalid_records
ValidationError(invalid) ==
  [type |-> "ValidationError", msg |-> "record(s) failed validation",
   arg |-> Len(invalid), names |-> <<>>, invalid_records |-> invalid]

\* isinstance(exc, cls) for the exception classes generate can raise
IsInstance(exc, cls) ==
  \/ exc.type = cls
  \/ exc.type = "ValidationError" /\ cls = "ValueError"

Init ==
  /\ pc = "idle"
  /\ context = ""
  /\ count = 0
  /\ validate = TRUE
  /\ prompt = NoPrompt
  /\ raw = <<>>
  /\ response = <<>>
  /\ data = JNull
  /\ records = <<>>
  /\ outcome = NoOutcome
  /\ provider_calls = 0
  /\ validator_calls = 0
  /\ log = <<>>
  /\ trace = <<>>
  /\ registry = CONTEXTS
  /\ gen = DefaultGenerator
  /\ NothingElse

\* gen.generate(c, count=n, validate=v) is entered
Call(c, n, v) ==
  /\ pc = "idle"
  /\ pc' = "count"
  /\ context' = c
  /\ count' = n
  /\ validate' = v
  /\ UNCHANGED <<prompt, raw, response, data, records, outcome,
                 provider_calls, validator_calls, log, trace>>
  /\ UNCHANGED <<registry, gen>>
  /\ UNCHANGED others

\* mutant of CountInvalid: the bound checked off by one (count < 0)
CountInvalid_OffByOne(n) == n < 0

\* generator.py:115  if count < 1
CountInvalid(n) == n < 1

\* mutant of CheckCount: the context is looked up before the count is checked
CheckCount_LookupFirst ==
  /\ pc = "count"
  /\ trace' = Append(trace, "count")
  /\ IF ~get_context_schema(context).ok
     THEN /\ outcome' = Raised(get_context_schema(context).exc)
          /\ pc' = "done"
          /\ UNCHANGED log
     ELSE IF CountInvalid(count)
     THEN /\ outcome' = Raised(Exc("ValueError", "count must be >= 1", count, <<>>))
          /\ pc' = "done"
          /\ UNCHANGED log
     ELSE /\ log' = log
               \o (IF count > LargeCount
                   THEN <<LogEvent("WARNING", "may exceed token limits", count, 0, <<>>)>>
                   ELSE <<>>)
               \o <<LogEvent("INFO", "Generating records for context", count, 0, <<>>)>>
          /\ pc' = "prompt"
          /\ UNCHANGED outcome
  /\ UNCHANGED <<context, count, validate, prompt, raw, response, data,
                 records, provider_calls, validator_calls>>
  /\ UNCHANGED <<registry, gen>>
  /\ UNCHANGED others

\* generator.py:115-123
CheckCount ==
  /\ pc = "count"
  /\ trace' = Append(trace, "count")
  /\ IF CountInvalid(count)
     THEN /\ outcome' = Raised(Exc("ValueError", "count must be >= 1", count, <<>>))
          /\ pc' = "done"
          /\ UNCHANGED log
     ELSE /\ log' = log
               \o (IF count > LargeCount
                   THEN <<LogEvent("WARNING", "may exceed token limits", count, 0, <<>>)>>
                   ELSE <<>>)
               \o <<LogEvent("INFO", "Generating records for context", count, 0, <<>>)>>
          /\ pc' = "prompt"
          /\ UNCHANGED outcome
  /\ UNCHANGED <<context, count, validate, prompt, raw, response, data,
                 records, provider_calls, validator_calls>>
  /\ UNCHANGED <<registry, gen>>
  /\ UNCHANGED others

\* generator.py:125-126
BuildPrompt ==
  /\ pc = "prompt"
  /\ trace' = Append(trace, "prompt")
  /\ LET built == get_prompt(context, count) IN
     IF ~built.ok
     THEN /\ outcome' = Raised(built.exc)
          /\ pc' = "done"
          /\ UNCHANGED <<prompt, log>>
     ELSE /\ prompt' = built.prompt
          /\ log' = Append(log, LogEvent("DEBUG", "Sending prompt", 0, 0, <<>>))
          /\ pc' = "provider"
          /\ UNCHANGED outcome
  /\ UNCHANGED <<context, count, validate, raw, response, data, records,
                 provider_calls, validator_calls>>
  /\ UNCHANGED <<registry, gen>>
  /\ UNCHANGED others

\* generator.py:128  self.provider.generate(prompt) returns text, which
\* _strip_markdown_fences strips
ProviderReturns(text) ==
  /\ pc = "provider"
  /\ trace' = Append(trace, "provider")
  /\ provider_calls' = provider_calls + 1
  /\ raw' = text
  /\ response' = _strip_markdown_fences(text)
  /\ pc' = "parse"
  /\ UNCHANGED <<context, count, validate, prompt, data, records, outcome,
                 validator_calls, log>>
  /\ UNCHANGED <<registry, gen>>
  /\ UNCHANGED others

\* mutant of ProviderRaises: a failed invocation is retried once before the
\* error is let through
ProviderRaises_Retry(exc) ==
  /\ pc = "provider"
  /\ trace' = Append(trace, "provider")
  /\ provider_calls' = provider_calls + 1
  /\ IF provider_calls = 0
     THEN pc' = "provider" /\ UNCHANGED outcome
     ELSE pc' = "done" /\ outcome' = Raised(exc)
  /\ UNCHANGED <<context, count, validate, prompt, raw, response, data,
                 records, validator_calls, log>>
  /\ UNCHANGED <<registry, gen>>
  /\ UNCHANGED others

\* generator.py:128  self.provider.generate(prompt) raises
ProviderRaises(exc) ==
  /\ pc = "provider"
  /\ trace' = Append(trace, "provider")
  /\ provider_calls' = provider_calls + 1
  /\ outcome' = Raised(exc)
  /\ pc' = "done"
  /\ UNCHANGED <<context, count, validate, prompt, raw, response, data,
                 records, validator_calls, log>>
  /\ UNCHANGED <<registry, gen>>
  /\ UNCHANGED others

\* generator.py:128  the one provider invocation of a call: it answers with a
\* text or raises
ProviderGenerate ==
  /\ pc = "provider"
  /\ \/ \E text \in ResponseTexts(context) : ProviderReturns(text)
     \/ \E exc \in ProviderErrors : ProviderRaises(exc)

\* the characters of the words of a string and of the spaces between them
SumLen(atoms) ==
  LET RECURSIVE from(_)
      from(i) == IF i > Len(atoms) THEN 0
                 ELSE Len(atoms[i]) + (IF i < Len(atoms) THEN 1 ELSE 0) + from(i + 1)
  IN from(1)

\* the first k characters of a token
Part(tok, k) == [c |-> "part", s |-> tok.s, n |-> k, of |-> tok.c]

\* len() of the characters of one token; a string has its two quotes
TokLen(tok) ==
  CASE tok.c \in {"tick", "ws", "punct"} -> 1
    [] tok.c = "str" -> 2 + SumLen(tok.s)
    [] tok.c = "part" -> tok.n
    [] OTHER -> Len(tok.s[1])

\* len(t), summed by halves
CharLen(t) ==
  LET RECURSIVE sum(_, _)
      sum(a, b) ==
        IF a > b THEN 0
        ELSE IF a = b THEN TokLen(t[a])
        ELSE sum(a, (a + b) \div 2) + sum((a + b) \div 2 + 1, b)
  IN sum(1, Len(t))

\* mutant of Prefix: the preview is the whole text (response in place of
\* response[:200])
Prefix_Whole(t, n) == t

\* t[:n], the first n characters of t; the cut may fall inside a token
Prefix(t, n) ==
  LET RECURSIVE from(_, _)
      from(i, left) ==
        IF i > Len(t) \/ left <= 0 THEN <<>>
        ELSE IF TokLen(t[i]) <= left
             THEN <<t[i]>> \o from(i + 1, left - TokLen(t[i]))
             ELSE <<Part(t[i], left)>>
  IN from(1, n)

\* the json.JSONDecodeError json.loads raises: it keeps the document it was
\* given as doc; its str() is its description and the position of the error
JSONDecodeError(doc) == [type |-> "JSONDecodeError", doc |-> doc]

\* generator.py:135  ValueError(f"AI response is not valid JSON: {e}") from e:
\* the message is built from str(e) alone, and e is chained as __cause__
InvalidJson(e) ==
  [type |-> "ValueError", msg |-> "AI response is not valid JSON", arg |-> 0,
   names |-> <<>>, invalid_records |-> <<>>, detail |-> "str(e)", cause |-> e]

\* mutant of ParseJson: a parse failure is swallowed and an empty list stands
\* in for the data
ParseJson_Swallow ==
  /\ pc = "parse"
  /\ trace' = Append(trace, "parse")
  /\ data' = (IF Loads(response).ok THEN Loads(response).val ELSE JList(<<>>))
  /\ pc' = "normalize"
  /\ UNCHANGED <<context, count, validate, prompt, raw, response, records,
                 outcome, provider_calls, validator_calls, log>>
  /\ UNCHANGED <<registry, gen>>
  /\ UNCHANGED others

\* generator.py:130-135
ParseJson ==
  /\ pc = "parse"
  /\ trace' = Append(trace, "parse")
  /\ LET parsed == Loads(response) IN
     IF ~parsed.ok
     THEN /\ log' = log \o
               << LogEvent("ERROR", "Failed to parse AI response as JSON", 0, 0, <<>>),
                  LogEvent("DEBUG", "Response preview", 0, 0,
                           Prefix(response, PreviewLen)) >>
          /\ outcome' = Raised(InvalidJson(JSONDecodeError(response)))
          /\ pc' = "done"
          /\ UNCHANGED data
     ELSE /\ data' = parsed.val
          /\ pc' = "normalize"
          /\ UNCHANGED <<outcome, log>>
  /\ UNCHANGED <<context, count, validate, prompt, raw, response, records,
                 provider_calls, validator_calls>>
  /\ UNCHANGED <<registry, gen>>
  /\ UNCHANGED others

\* mutant of ExtractRecords: the last array-valued entry of a mapping is taken
ExtractRecords_LastList(d) ==
  IF IsDict(d)
  THEN IF \E i \in 1..Len(d.v) : IsList(d.v[i])
       THEN LET last == CHOOSE i \in 1..Len(d.v) :
                          /\ IsList(d.v[i])
                          /\ \A j \in (i + 1)..Len(d.v) : ~IsList(d.v[j])
            IN d.v[last].v
       ELSE <<d>>
  ELSE IF IsList(d) THEN d.v
  ELSE <<d>>

\* mutant of ExtractRecords: elements of a bare array that are not mappings
\* are dropped
ExtractRecords_DictsOnly(d) ==
  IF IsDict(d)
  THEN IF \E i \in 1..Len(d.v) : IsList(d.v[i])
       THEN LET first == CHOOSE i \in 1..Len(d.v) :
                           /\ IsList(d.v[i])
                           /\ \A j \in 1..(i - 1) : ~IsList(d.v[j])
            IN d.v[first].v
       ELSE <<d>>
  ELSE IF IsList(d) THEN SelectSeq(d.v, IsDict)
  ELSE <<d>>

\* mutant of ExtractRecords: a mapping without an array is not wrapped but
\* yields no record
ExtractRecords_NoWrap(d) ==
  IF IsDict(d)
  THEN IF \E i \in 1..Len(d.v) : IsList(d.v[i])
       THEN LET first == CHOOSE i \in 1..Len(d.v) :
                           /\ IsList(d.v[i])
                           /\ \A j \in 1..(i - 1) : ~IsList(d.v[j])
            IN d.v[first].v
       ELSE <<>>
  ELSE IF IsList(d) THEN d.v
  ELSE <<d>>

\* generator.py:139-149  the list of records of a parsed value
ExtractRecords(d) ==
  IF IsDict(d)
  THEN IF \E i \in 1..Len(d.v) : IsList(d.v[i])
       THEN LET first == CHOOSE i \in 1..Len(d.v) :
                           /\ IsList(d.v[i])
                           /\ \A j \in 1..(i - 1) : ~IsList(d.v[j])
            IN d.v[first].v
       ELSE <<d>>
  ELSE IF IsList(d) THEN d.v
  ELSE <<d>>

\* mutant of CountMismatch: only a shortfall counts (len(records) < count)
CountMismatch_ShortOnly(recs, n) == Len(recs) < n

\* generator.py:153  if len(records) != count
CountMismatch(recs, n) == Len(recs) # n

\* mutant of Normalize: a response that fell short doubles the provider's
\* max_tokens for the calls to come
Normalize_RaisesBudget ==
  /\ pc = "normalize"
  /\ trace' = Append(trace, "normalize")
  /\ records' = ExtractRecords(data)
  /\ log' = log
       \o <<LogEvent("INFO", "Successfully generated records", Len(records'), 0, <<>>)>>
       \o (IF CountMismatch(records', count)
           THEN <<LogEvent("WARNING", "Requested records but received", count,
                           Len(records'), <<>>)>>
           ELSE <<>>)
  /\ gen' = (IF Len(records') < count
             THEN [gen EXCEPT !.provider.max_tokens = 2 * @]
             ELSE gen)
  /\ pc' = "validate"
  /\ UNCHANGED <<context, count, validate, prompt, raw, response, data,
                 outcome, provider_calls, validator_calls>>
  /\ UNCHANGED registry
  /\ UNCHANGED others

\* generator.py:137-156
Normalize ==
  /\ pc = "normalize"
  /\ trace' = Append(trace, "normalize")
  /\ records' = ExtractRecords(data)
  /\ log' = log
       \o <<LogEvent("INFO", "Successfully generated records", Len(records'), 0, <<>>)>>
       \o (IF CountMismatch(records', count)
           THEN <<LogEvent("WARNING", "Requested records but received", count,
                           Len(records'), <<>>)>>
           ELSE <<>>)
  /\ pc' = "validate"
  /\ UNCHANGED <<context, count, validate, prompt, raw, response, data,
                 outcome, provider_calls, validator_calls>>
  /\ UNCHANGED <<registry, gen>>
  /\ UNCHANGED others

\* mutant of ValidateOutcome: a validated call that got no record fails
ValidateOutcome_RejectEmpty(ctx, recs, flag) ==
  IF flag
  THEN LET checked == validate_generated_data(ctx, recs) IN
       IF checked.exc # NoExc THEN Raised(checked.exc)
       ELSE IF checked.invalid # <<>> \/ recs = <<>>
            THEN Raised(ValidationError(checked.invalid))
       ELSE Returned(recs)
  ELSE Returned(recs)

\* mutant of ValidateOutcome: the error carries the first issue only
ValidateOutcome_FirstIssueOnly(ctx, recs, flag) ==
  IF flag
  THEN LET checked == validate_generated_data(ctx, recs) IN
       IF checked.exc # NoExc THEN Raised(checked.exc)
       ELSE IF checked.invalid # <<>>
            THEN Raised(ValidationError(<<checked.invalid[1]>>))
       ELSE Returned(recs)
  ELSE Returned(recs)

\* generator.py:158-163  what generate returns or raises for its records
ValidateOutcome(ctx, recs, flag) ==
  IF flag
  THEN LET checked == validate_generated_data(ctx, recs) IN
       IF checked.exc # NoExc THEN Raised(checked.exc)
       ELSE IF checked.invalid # <<>> THEN Raised(ValidationError(checked.invalid))
       ELSE Returned(recs)
  ELSE Returned(recs)

\* mutant of RunsValidator: the validate flag is ignored
RunsValidator_Always(flag) == TRUE

\* generator.py:158  validate_generated_data is called iff validate is set
RunsValidator(flag) == flag

\* generator.py:158-163
Validate ==
  /\ pc = "validate"
  /\ trace' = Append(trace, "validate")
  /\ validator_calls' = validator_calls + (IF RunsValidator(validate) THEN 1 ELSE 0)
  /\ outcome' = ValidateOutcome(context, records, RunsValidator(validate))
  /\ pc' = "done"
  /\ UNCHANGED <<context, count, validate, prompt, raw, response, data,
                 records, provider_calls, log>>
  /\ UNCHANGED <<registry, gen>>
  /\ UNCHANGED others

\* the caller has the result; nothing of the call is kept
Finish ==
  /\ pc = "done"
  /\ pc' = "idle"
  /\ context' = ""
  /\ count' = 0
  /\ validate' = TRUE
  /\ prompt' = NoPrompt
  /\ raw' = <<>>
  /\ response' = <<>>
  /\ data' = JNull
  /\ records' = <<>>
  /\ outcome' = NoOutcome
  /\ provider_calls' = 0
  /\ validator_calls' = 0
  /\ log' = <<>>
  /\ trace' = <<>>
  /\ UNCHANGED <<registry, gen>>
  /\ UNCHANGED others

Next ==
  \/ \E c \in CallContexts, n \in Counts, v \in BOOLEAN : Call(c, n, v)
  \/ CheckCount
  \/ BuildPrompt
  \/ ProviderGenerate
  \/ ParseJson
  \/ Normalize
  \/ Validate
  \/ Finish

Spec == Init /\ [][Next]_vars

(***************************************************************************)
(* Properties of generate                                                  *)
(***************************************************************************)
\* the step has been executed in the current call
Did(step) == step \in Range(trace)

\* a record that is a mapping holding every required field of the schema
WellFormed(schema, record) ==
  /\ IsDict(record)
  /\ \A f \in Range(fields(schema)) : f \in Range(record.k)

\* C1: whenever generate(context, count, validate=True) returns normally,
\* every element of the returned list is a mapping that holds every required
\* field of the context's schema.
C1_ReturnedRecordsConform ==
  (pc = "done" /\ outcome.kind = "return" /\ validate) =>
    \A i \in 1..Len(outcome.value) :
      WellFormed(CONTEXTS[context], outcome.value[i])

\* C2: for every count < 1 the call fails with the invalid-count ValueError
\* and the provider is invoked zero times during the call.
C2_InvalidCountFailsBeforeProvider ==
  count < 1 =>
    /\ provider_calls = 0
    /\ ~Did("provider")
    /\ Did("count") =>
         /\ pc = "done"
         /\ outcome = Raised(Exc("ValueError", "count must be >= 1", count, <<>>))

C2_Witness ==
  /\ pc = "done"
  /\ count < 0
  /\ outcome.kind = "raise"
  /\ outcome.exc.msg = "count must be >= 1"

\* C3: for count >= 1 and a context that is not registered the call fails with
\* the very ValueError the registry lookup raises, and the provider is never
\* invoked.
C3_UnknownContextPropagates ==
  (count >= 1 /\ context \notin DOMAIN CONTEXTS) =>
    /\ provider_calls = 0
    /\ ~Did("provider")
    /\ Did("prompt") =>
         /\ pc = "done"
         /\ outcome.kind = "raise"
         /\ outcome.exc = get_context_schema(context).exc
         /\ outcome.exc.type = "ValueError"
         /\ outcome.exc.msg = "Unknown context"

C3_Witness ==
  /\ pc = "done"
  /\ count >= 1
  /\ context = "nonexistent"
  /\ outcome.kind = "raise"
  /\ outcome.exc.msg = "Unknown context"

\* C4: when the text the provider returned, stripped of its fences, is not
\* valid JSON, the call fails with the "not valid JSON" ValueError and nothing
\* else: no record list is built or returned and the validator is not run.
C4_InvalidJsonFails ==
  (provider_calls = 1 /\ Did("parse")
     /\ ~Loads(_strip_markdown_fences(raw)).ok) =>
    /\ pc = "done"
    /\ outcome = Raised(InvalidJson(JSONDecodeError(response)))
    /\ outcome.exc.msg = "AI response is not valid JSON"
    /\ IsInstance(outcome.exc, "ValueError")
    /\ records = <<>>
    /\ validator_calls = 0
    /\ ~Did("normalize") /\ ~Did("validate")

C4_Witness ==
  /\ pc = "done"
  /\ Did("parse")
  /\ raw # <<>>
  /\ \E i \in 1..Len(raw) : raw[i] = TICK
  /\ ~Loads(response).ok
  /\ outcome.exc.msg = "AI response is not valid JSON"

\* C5: when the parsed value is a mapping with an array-valued entry, the
\* record list is the first array-valued entry in key order, whatever its key
\* and whatever arrays follow it.
C5_FirstArrayOfMapping ==
  (Did("normalize") /\ IsDict(data) /\ \E i \in 1..Len(data.v) : IsList(data.v[i])) =>
    \E i \in 1..Len(data.v) :
      /\ IsList(data.v[i])
      /\ \A j \in 1..(i - 1) : ~IsList(data.v[j])
      /\ records = data.v[i].v

C5_Witness ==
  /\ Did("normalize")
  /\ IsDict(data)
  /\ \E i, j \in 1..Len(data.v) :
       /\ i < j
       /\ IsList(data.v[i]) /\ IsList(data.v[j])
       /\ data.v[i] # data.v[j]
       /\ data.k[i] # <<"data">>
       /\ records = data.v[i].v
       /\ Len(records) = 2

\* C6: when the parsed value is an array, the record list is that array: same
\* length, same elements, same order.
C6_ArrayUsedAsIs ==
  (Did("normalize") /\ IsList(data)) =>
    /\ Len(records) = Len(data.v)
    /\ \A i \in 1..Len(data.v) : records[i] = data.v[i]

C6_Witness ==
  /\ Did("normalize")
  /\ IsList(data)
  /\ Len(records) = 2
  /\ ~IsDict(records[1])
  /\ IsDict(records[2])

\* C7: extraction never fails, and a mapping without an array-valued entry or
\* a scalar becomes the one-element list holding that very value.
C7_ExtractionTotal ==
  Did("normalize") =>
    /\ (trace[Len(trace)] = "normalize" => pc = "validate" /\ outcome = NoOutcome)
    /\ ((\/ IsDict(data) /\ \A i \in 1..Len(data.v) : ~IsList(data.v[i])
         \/ data.t \in {"str", "num", "bool", "null"})
        => records = <<data>>)

C7_Witness ==
  /\ pc = "validate"
  /\ IsDict(data)
  /\ Len(data.v) > 1
  /\ \A i \in 1..Len(data.v) : ~IsList(data.v[i])
  /\ records = <<data>>

\* C8: with validate=True, when the validator reports at least one issue for
\* the record list, the call fails with the ValidationError, a ValueError
\* whose invalid_records is the complete issue list, one entry per failing
\* record; no records are returned.
C8_ValidationErrorCarriesIssues ==
  (Did("validate") /\ validate
     /\ validate_generated_data(context, records).exc = NoExc
     /\ validate_generated_data(context, records).invalid # <<>>) =>
    LET issues == validate_generated_data(context, records).invalid
        failing == {i \in 1..Len(records) :
                      ~validate_record(CONTEXTS[context], records[i])}
    IN /\ pc = "done"
       /\ outcome.kind = "raise"
       /\ outcome.value = <<>>
       /\ outcome.exc.type = "ValidationError"
       /\ IsInstance(outcome.exc, "ValueError")
       /\ outcome.exc.invalid_records = issues
       /\ Len(outcome.exc.invalid_records) = Cardinality(failing)
       /\ \A i \in failing :
            \E n \in 1..Len(outcome.exc.invalid_records) :
              /\ outcome.exc.invalid_records[n].record_index = i - 1
              /\ outcome.exc.invalid_records[n].missing_fields
                   = missing_fields(CONTEXTS[context], records[i])

C8_Witness ==
  /\ pc = "done"
  /\ validate
  /\ outcome.exc.type = "ValidationError"
  /\ Len(outcome.exc.invalid_records) = 2
  /\ Len(records) = 2

\* C9: with validate=False the validator is not run and the call never fails
\* with the ValidationError: once the response has parsed, the normalized
\* record list is returned unchanged, ill-formed records included.
C9_NoValidationWhenDisabled ==
  ~validate =>
    /\ validator_calls = 0
    /\ outcome.exc.type # "ValidationError"
    /\ Did("validate") =>
         /\ pc = "done"
         /\ outcome = Returned(records)
         /\ records = ExtractRecords(Loads(_strip_markdown_fences(raw)).val)

C9_Witness ==
  /\ pc = "done"
  /\ ~validate
  /\ outcome.kind = "return"
  /\ Len(outcome.value) = 2
  /\ ~IsDict(outcome.value[1])
  /\ IsDict(outcome.value[2])
  /\ ~WellFormed(CONTEXTS[context], outcome.value[2])

\* C10: when the number of records differs from the requested count, fewer
\* or more, a warning is logged and the call does not fail for it: with all
\* records well-formed it returns the records the provider delivered.
C10_CountMismatchOnlyWarns ==
  (Did("normalize") /\ Len(records) # count) =>
    /\ \E i \in 1..Len(log) :
         log[i] = LogEvent("WARNING", "Requested records but received",
                           count, Len(records), <<>>)
    /\ (trace[Len(trace)] = "normalize" => pc = "validate" /\ outcome = NoOutcome)
    /\ (pc = "done"
          /\ \A i \in 1..Len(records) : WellFormed(CONTEXTS[context], records[i]))
        => /\ outcome = Returned(records)
           /\ Len(outcome.value) = Len(records)

C10_Witness ==
  /\ pc = "done"
  /\ validate
  /\ Len(records) = 1
  /\ count = 2
  /\ outcome.kind = "return"
  /\ Len(outcome.value) = 1

\* C11: in one call the provider is invoked at most once, and exactly once
\* when count >= 1 and the context is registered; when that invocation raises,
\* the call ends with the provider's own error, without a second invocation
\* and without parsing, record extraction, count warning or validation.
C11_ProviderInvokedOnceNoRetry ==
  /\ provider_calls <= 1
  /\ provider_calls = (IF Did("provider") THEN 1 ELSE 0)
  /\ (pc = "done" /\ count >= 1 /\ context \in DOMAIN CONTEXTS)
       => provider_calls = 1
  /\ (pc = "done" /\ trace[Len(trace)] = "provider") =>
       /\ outcome.kind = "raise"
       /\ outcome.exc \in ProviderErrors
       /\ outcome.exc.type = "RuntimeError"
       /\ ~Did("parse") /\ ~Did("normalize") /\ ~Did("validate")
       /\ validator_calls = 0
       /\ data = JNull /\ records = <<>>
       /\ \A i \in 1..Len(log) : log[i].level # "WARNING" \/ log[i].msg = "may exceed token limits"
       /\ \A i \in 1..Len(log) : log[i].level # "ERROR"

C11_Witness ==
  /\ pc = "done"
  /\ provider_calls = 1
  /\ count = 2
  /\ outcome.kind = "raise"
  /\ outcome.exc.msg = "timed out"

(***************************************************************************)
(* contexts.py called directly: get_context_schema, validate_generated_data,*)
(* ContextSchema.validate_record and ContextSchema.missing_fields.         *)
(* The arguments are held in context and records, the result in outcome,   *)
(* and trace names the function that was called.                           *)
(***************************************************************************)
\* the names looked up: every registered name and names that are not
LookupNames ==
  Range(ContextNames) \cup {"nonexistent", "", "Ecommerce_Customer"}

\* the mapping with the entries of d at the positions keep, in that order
Project(d, keep) ==
  JDict([i \in 1..Len(keep) |-> d.k[keep[i]]],
        [i \in 1..Len(keep) |-> d.v[keep[i]]])

\* records handed to the validator of a schema: the sample; the sample with
\* one more key; the sample without its first and last field; the sample
\* nested under one key; the sample's keys in reverse order with null values;
\* the empty mapping; strings, an array, a number, null and a boolean
ValidatorRecords(schema) ==
  LET sample == schema.sample
      n == Len(sample.k)
  IN { sample,
       JDict(sample.k \o << <<"extra_field">> >>, sample.v \o <<JNum("7")>>),
       Project(sample, [i \in 1..(n - 2) |-> i + 1]),
       JDict(<< <<"data">> >>, <<sample>>),
       JDict([i \in 1..n |-> sample.k[n + 1 - i]], [i \in 1..n |-> JNull]),
       JDict(<<>>, <<>>),
       JStr(<<"hello">>),
       JStr([i \in 1..n |-> sample.k[i][1]]),
       JList([i \in 1..n |-> JStr(sample.k[i])]),
       JNum("42"),
       JNull,
       JBool("true") }

InputRecordLists(name) ==
  IF name \in DOMAIN CONTEXTS
  THEN SeqsUpTo(ValidatorRecords(CONTEXTS[name]), MaxRecs)
  ELSE {<<>>, <<JDict(<<>>, <<>>)>>}

ContextsInit ==
  /\ pc = "input"
  /\ context \in LookupNames
  /\ records \in InputRecordLists(context)
  /\ count = 0
  /\ validate = TRUE
  /\ prompt = NoPrompt
  /\ raw = <<>>
  /\ response = <<>>
  /\ data = JNull
  /\ outcome = NoOutcome
  /\ provider_calls = 0
  /\ validator_calls = 0
  /\ log = <<>>
  /\ trace = <<>>
  /\ registry = CONTEXTS
  /\ gen = DefaultGenerator
  /\ NothingElse

\* the TypeError of  f in record  on a record without __contains__
NotIterable == Exc("TypeError", "argument is not iterable", 0, <<>>)

\* get_context_schema(context)
CallGetContextSchema ==
  /\ pc = "input"
  /\ records = <<>>
  /\ trace' = <<"get_context_schema">>
  /\ LET got == get_context_schema(context) IN
     outcome' = (IF got.ok THEN Returned(got.schema) ELSE Raised(got.exc))
  /\ pc' = "called"
  /\ UNCHANGED <<context, count, validate, prompt, raw, response, data,
                 records, provider_calls, validator_calls, log>>
  /\ UNCHANGED <<registry, gen>>
  /\ UNCHANGED others

\* validate_generated_data(context, records)
CallValidateGeneratedData ==
  /\ pc = "input"
  /\ trace' = <<"validate_generated_data">>
  /\ LET checked == validate_generated_data(context, records) IN
     outcome' = (IF checked.exc # NoExc THEN Raised(checked.exc)
                 ELSE Returned(checked.invalid))
  /\ pc' = "called"
  /\ UNCHANGED <<context, count, validate, prompt, raw, response, data,
                 records, provider_calls, validator_calls, log>>
  /\ UNCHANGED <<registry, gen>>
  /\ UNCHANGED others

\* CONTEXTS[context].validate_record(records[0])
CallValidateRecord ==
  /\ pc = "input"
  /\ context \in DOMAIN CONTEXTS
  /\ Len(records) = 1
  /\ trace' = <<"validate_record">>
  /\ outcome' = (IF validate_record_raises(CONTEXTS[context], records[1])
                 THEN Raised(NotIterable)
                 ELSE Returned(validate_record(CONTEXTS[context], records[1])))
  /\ pc' = "called"
  /\ UNCHANGED <<context, count, validate, prompt, raw, response, data,
                 records, provider_calls, validator_calls, log>>
  /\ UNCHANGED <<registry, gen>>
  /\ UNCHANGED others

\* CONTEXTS[context].missing_fields(records[0])
CallMissingFields ==
  /\ pc = "input"
  /\ context \in DOMAIN CONTEXTS
  /\ Len(records) = 1
  /\ trace' = <<"missing_fields">>
  /\ outcome' = (IF validate_record_raises(CONTEXTS[context], records[1])
                 THEN Raised(NotIterable)
                 ELSE Returned(missing_fields(CONTEXTS[context], records[1])))
  /\ pc' = "called"
  /\ UNCHANGED <<context, count, validate, prompt, raw, response, data,
                 records, provider_calls, validator_calls, log>>
  /\ UNCHANGED <<registry, gen>>
  /\ UNCHANGED others

ContextsNext ==
  \/ CallGetContextSchema
  \/ CallValidateGeneratedData
  \/ CallValidateRecord
  \/ CallMissingFields

ContextsSpec == ContextsInit /\ [][ContextsNext]_vars

(***************************************************************************)
(* Properties of the registry lookup and the validator                     *)
(***************************************************************************)
\* the function named fn was called and returned a value
ReturnedFrom(fn) == trace = <<fn>> /\ outcome.kind = "return"

\* the function named fn was called and raised
RaisedFrom(fn) == trace = <<fn>> /\ outcome.kind = "raise"

\* the required fields that are no top-level key of the mapping record, in
\* the schema's field order
MissingKeys(schema, record) ==
  SelectSeq(fields(schema), LAMBDA f : f \notin Range(record.k))

C13_MappingIssueIffMissingKeys ==
  /\ (trace = <<"validate_generated_data">> /\ context \in DOMAIN CONTEXTS) =>
       \A i \in 1..Len(records) :
         IsDict(records[i]) =>
           LET missing == MissingKeys(CONTEXTS[context], records[i]) IN
           /\ outcome.kind = "return"
           /\ missing # <<>> <=>
                \E n \in 1..Len(outcome.value) :
                  outcome.value[n].record_index = i - 1
           /\ \A n \in 1..Len(outcome.value) :
                /\ outcome.value[n].missing_fields # <<>>
                /\ outcome.value[n].record_index = i - 1
                     => outcome.value[n].missing_fields = missing
  /\ (trace = <<"validate_record">> /\ IsDict(records[1])) =>
       outcome = Returned(MissingKeys(CONTEXTS[context], records[1]) = <<>>)
  /\ (trace = <<"missing_fields">> /\ IsDict(records[1])) =>
       outcome = Returned(MissingKeys(CONTEXTS[context], records[1]))

\* C14: a record that is no mapping (a string, number, boolean, null or
\* array) is reported with every required field of the schema missing.
C14_NonMappingAllMissing ==
  /\ (trace = <<"validate_generated_data">> /\ context \in DOMAIN CONTEXTS) =>
       \A i \in 1..Len(records) :
         ~IsDict(records[i]) =>
           /\ outcome.kind = "return"
           /\ \E n \in 1..Len(outcome.value) :
                /\ outcome.value[n].record_index = i - 1
                /\ outcome.value[n].missing_fields = fields(CONTEXTS[context])
  /\ (trace = <<"validate_record">> /\ ~IsDict(records[1])) =>
       outcome = Returned(FALSE)
  /\ (trace = <<"missing_fields">> /\ ~IsDict(records[1])) =>
       outcome = Returned(fields(CONTEXTS[context]))

\* C15: for a registered context, validate_generated_data, validate_record
\* and missing_fields return a value whatever the JSON type of each record;
\* none of them raises.
C15_ValidatorNeverRaises ==
  (pc = "called" /\ context \in DOMAIN CONTEXTS) => outcome.kind = "return"

\* C16: every registered schema has a non-empty example record, and the
\* one-element list holding that example validates against its own schema
\* with an empty issue list.
C16_ExamplesSelfConsistent ==
  context \in DOMAIN CONTEXTS =>
    /\ IsDict(CONTEXTS[context].sample)
    /\ CONTEXTS[context].sample.k # <<>>
    /\ fields(CONTEXTS[context]) # <<>>
    /\ (trace = <<"validate_generated_data">>
          /\ records = <<CONTEXTS[context].sample>>)
         => outcome = Returned(<<>>)
    /\ (trace = <<"validate_record">> /\ records = <<CONTEXTS[context].sample>>)
         => outcome = Returned(TRUE)

C16_Witness ==
  /\ ReturnedFrom("validate_generated_data")
  /\ context = "logistics_shipment"
  /\ records = <<CONTEXTS[context].sample>>
  /\ outcome.value = <<>>

MaxChunks == 4

\* the JSON text [1]
SmallBody == Dumps(JList(<<JNum("1")>>))

\* the pieces of a free text
Chunks ==
  { FENCE, <<TICK>>, <<NL>>, <<SP>>, <<Word("json")>>, <<Word("JSON")>>,
    SmallBody }

RECURSIVE Concat(_)
\* the pieces of a sequence of texts joined into one text
Concat(ss) == IF ss = <<>> THEN <<>> ELSE Head(ss) \o Concat(Tail(ss))

\* every text of at most MaxChunks pieces
FreeTexts == {Concat(ss) : ss \in SeqsUpTo(Chunks, MaxChunks)}

\* texts of the shape whitespace, opening marker line, body, closing marker,
\* whitespace, each part in its variants or absent
ShapedTexts ==
  LET lead == {<<>>, <<SP>>, <<NL>>, <<SP, NL>>}
      opening == { <<>>, FENCE \o <<NL>>, FENCE \o <<Word("json"), NL>>,
                   FENCE \o <<Word("JSON"), NL>>,
                   FENCE \o <<SP, Word("json"), NL>>,
                   FENCE \o <<Word("Json"), SP, NL>>,
                   FENCE \o <<Word("json")>>, FENCE }
      body == { <<>>, SmallBody,
                <<P("["), NL, SP, SP, Tok("num", <<"1">>), NL, P("]")>>,
                <<P("["), Tok("num", <<"1">>)>>,
                <<TICK, TICK>> \o SmallBody }
      closing == { <<>>, FENCE, <<NL>> \o FENCE, <<NL>> \o FENCE \o <<SP, SP, NL>>,
                   <<NL, TICK, TICK>>, FENCE \o <<NL>> \o FENCE }
  IN { l \o o \o b \o c : l \in lead, o \in opening, b \in body, c \in closing }

FenceTexts == FreeTexts \cup ShapedTexts

FenceInit ==
  /\ pc = "input"
  /\ raw \in FenceTexts
  /\ context = ""
  /\ count = 0
  /\ validate = TRUE
  /\ prompt = NoPrompt
  /\ response = <<>>
  /\ data = JNull
  /\ records = <<>>
  /\ outcome = NoOutcome
  /\ provider_calls = 0
  /\ validator_calls = 0
  /\ log = <<>>
  /\ trace = <<>>
  /\ registry = CONTEXTS
  /\ gen = DefaultGenerator
  /\ NothingElse

\* _strip_markdown_fences(raw)
StripFences ==
  /\ pc = "input"
  /\ trace' = <<"_strip_markdown_fences">>
  /\ response' = _strip_markdown_fences(raw)
  /\ pc' = "stripped"
  /\ UNCHANGED <<context, count, validate, prompt, raw, data, records,
                 outcome, provider_calls, validator_calls, log>>
  /\ UNCHANGED <<registry, gen>>
  /\ UNCHANGED others

\* _strip_markdown_fences applied to its own result
StripAgain ==
  /\ pc = "stripped"
  /\ trace' = Append(trace, "_strip_markdown_fences")
  /\ outcome' = Returned(_strip_markdown_fences(response))
  /\ pc' = "stripped twice"
  /\ UNCHANGED <<context, count, validate, prompt, raw, response, data,
                 records, provider_calls, validator_calls, log>>
  /\ UNCHANGED <<registry, gen>>
  /\ UNCHANGED others

FenceNext == StripFences \/ StripAgain

FenceSpec == FenceInit /\ [][FenceNext]_vars

(***************************************************************************)
(* Properties of fence stripping                                           *)
(***************************************************************************)
\* the text holds three backticks in a row somewhere
HasFence(t) ==
  \E i \in 1..(Len(t) - 2) : t[i] = TICK /\ t[i + 1] = TICK /\ t[i + 2] = TICK

\* the text begins with three backticks
BeginsWithFence(t) ==
  Len(t) >= 3 /\ t[1] = TICK /\ t[2] = TICK /\ t[3] = TICK

\* the text ends with three backticks
EndsWithFence(t) ==
  Len(t) >= 3 /\ t[Len(t)] = TICK /\ t[Len(t) - 1] = TICK /\ t[Len(t) - 2] = TICK

HasLineBreak(t) == \E i \in 1..Len(t) : t[i] = NL

\* the text after its first line break
AfterFirstLine(t) ==
  LET j == CHOOSE i \in 1..Len(t) : t[i] = NL /\ \A m \in 1..(i - 1) : t[m] # NL
  IN SubSeq(t, j + 1, Len(t))

\* r is t with whitespace, and nothing else, taken from its two ends
IsTrimOf(r, t) ==
  /\ (r # <<>> => ~IsSpace(r[1]) /\ ~IsSpace(r[Len(r)]))
  /\ \E a \in 1..(Len(t) + 1) :
       /\ Len(t) - (a - 1) >= Len(r)
       /\ r = SubSeq(t, a, a + Len(r) - 1)
       /\ \A i \in 1..(a - 1) : IsSpace(t[i])
       /\ \A i \in (a + Len(r))..Len(t) : IsSpace(t[i])

\* C18: a text without three backticks in a row comes back unchanged but for
\* the whitespace at its two ends.
C18_NoFenceOnlyTrims ==
  (pc = "stripped" /\ ~HasFence(raw)) =>
    /\ response = Strip(raw)
    /\ IsTrimOf(response, raw)

C18_Witness ==
  /\ pc = "stripped"
  /\ ~HasFence(raw)
  /\ response # raw
  /\ \E i \in 1..Len(response) : response[i] = TICK
  /\ \E i \in 1..Len(response) : response[i] = NL

\* the trimmed inner text: the trimmed text without its opening marker line,
\* when it begins with three backticks and holds a line break, and without
\* its closing marker, when it ends with three backticks
InnerText(text) ==
  LET t == Strip(text)
      body == IF BeginsWithFence(t) /\ HasLineBreak(t) THEN AfterFirstLine(t)
              ELSE t
  IN Strip(IF EndsWithFence(body) THEN SubSeq(body, 1, Len(body) - 3) ELSE body)

\* C19 as stated: whenever the trimmed text begins with three backticks the
\* opening marker is removed, and whenever it ends with three backticks the
\* closing marker is removed: the result is a part of the trimmed text that
\* lies after the opening backticks, respectively before the closing ones.
C19_MarkersAlwaysRemoved ==
  pc = "stripped" =>
    LET t == Strip(raw) IN
    /\ BeginsWithFence(t) =>
         \E a \in 4..(Len(t) + 1) :
           /\ Len(response) <= Len(t) - (a - 1)
           /\ response = SubSeq(t, a, a + Len(response) - 1)
    /\ EndsWithFence(t) =>
         \E a \in 1..(Len(t) - 2) :
           /\ a + Len(response) - 1 <= Len(t) - 3
           /\ response = SubSeq(t, a, a + Len(response) - 1)

\* C19, amended: the opening marker line is removed when the trimmed text
\* begins with three backticks and holds a line break (the line is removed up
\* to and including the first line break, whatever follows the backticks on
\* it); the closing marker is removed whenever the text ends with three
\* backticks; either happens without the other, and the result is the trimmed
\* inner text.  Without a line break the opening backticks stay.
C19_FencesRemoved ==
  pc = "stripped" =>
    LET t == Strip(raw)
        opened == BeginsWithFence(t) /\ HasLineBreak(t)
        body == IF opened THEN AfterFirstLine(t) ELSE t
    IN /\ response = InnerText(raw)
       /\ EndsWithFence(t) =>
            /\ EndsWithFence(body)
            /\ IsTrimOf(response, SubSeq(body, 1, Len(body) - 3))
       /\ ~EndsWithFence(t) => IsTrimOf(response, body)
       /\ (BeginsWithFence(t) /\ ~HasLineBreak(t) /\ ~EndsWithFence(t)) =>
            response = t

C19_Witness ==
  /\ pc = "stripped"
  /\ raw = <<SP>> \o FENCE \o <<Word("JSON"), NL>> \o SmallBody
  /\ response = SmallBody

(***************************************************************************)
(* Properties of the invalid-JSON error                                    *)
(***************************************************************************)
\* the call has failed at json.loads
ParseFailed ==
  pc = "done" /\ trace[Len(trace)] = "parse" /\ outcome.kind = "raise"

\* p is made of the first characters of t: the tokens of t in order, the
\* last one possibly cut short
IsCharPrefix(p, t) ==
  /\ Len(p) <= Len(t)
  /\ \A i \in 1..Len(p) :
       \/ p[i] = t[i]
       \/ /\ i = Len(p)
          /\ p[i].c = "part" /\ p[i].s = t[i].s /\ p[i].of = t[i].c
          /\ p[i].n \in 1..(TokLen(t[i]) - 1)

\* the response texts the error holds: none in its message, which is built
\* from str(e), and the document kept by the chained parse error
TextsCarried(exc) == {exc.cause.doc}

\* C20 as stated: the error raised for invalid JSON carries the parse error
\* and a prefix of the fence-stripped text of at most 200 characters, and no
\* longer text of the response.
C20_ErrorCarriesCappedPrefix ==
  ParseFailed =>
    /\ outcome.exc.cause.type = "JSONDecodeError"
    /\ \E p \in TextsCarried(outcome.exc) :
         IsCharPrefix(p, response) /\ CharLen(p) <= PreviewLen
    /\ \A p \in TextsCarried(outcome.exc) : CharLen(p) <= PreviewLen

\* C20, amended: the error raised for invalid JSON carries the parse error
\* (its message is built from the parse error's own message, and the parse
\* error is chained as its cause) and no prefix of the text in its message;
\* the prefix of the fence-stripped text, at most 200 characters whatever the
\* length of the response, is written to the debug log right before.
C20_ParseErrorRaisedPreviewLogged ==
  ParseFailed =>
    /\ outcome.exc.type = "ValueError"
    /\ outcome.exc.msg = "AI response is not valid JSON"
    /\ outcome.exc.detail = "str(e)"
    /\ outcome.exc.names = <<>>
    /\ outcome.exc.cause = JSONDecodeError(_strip_markdown_fences(raw))
    /\ Len(log) >= 2
    /\ log[Len(log) - 1].level = "ERROR"
    /\ LET preview == log[Len(log)] IN
       /\ preview.level = "DEBUG"
       /\ preview.msg = "Response preview"
       /\ IsCharPrefix(preview.text, _strip_markdown_fences(raw))
       /\ CharLen(preview.text) <= PreviewLen
       /\ CharLen(preview.text)
            = (IF CharLen(response) < PreviewLen THEN CharLen(response)
               ELSE PreviewLen)
    /\ \A i \in 1..(Len(log) - 1) : log[i].text = <<>>

C20_Witness ==
  /\ ParseFailed
  /\ CharLen(response) > PreviewLen
  /\ CharLen(log[Len(log)].text) = PreviewLen
  /\ log[Len(log)].text[Len(log[Len(log)].text)].c = "part"
  /\ raw # response

(***************************************************************************)
(* Order of the steps of generate                                          *)
(***************************************************************************)
\* generator.py:115-163  the steps of generate in the order of the code
StepOrder == <<"count", "prompt", "provider", "parse", "normalize", "validate">>

CountWarning ==
  LogEvent("WARNING", "Requested records but received", count, Len(records), <<>>)

\* C25: generate runs its steps in one fixed order (count check, lookup and
\* prompt, provider call, fence strip and parse, extraction, count-mismatch
\* warning, validation, return); the error of the earliest failing step is the
\* one reported (count < 1 with an unknown context reports the invalid count,
\* an unparsable response never reports a validation error), and no later
\* step runs after a failure.
C25_StepsInOrderFirstErrorWins ==
  /\ Len(trace) <= Len(StepOrder)
  /\ trace = SubSeq(StepOrder, 1, Len(trace))
  /\ outcome.kind = "raise" => pc = "done"
  /\ outcome.kind = "return" => pc = "done" /\ trace = StepOrder
  /\ (pc = "done" /\ count < 1) =>
       /\ trace = <<"count">>
       /\ outcome = Raised(Exc("ValueError", "count must be >= 1", count, <<>>))
  /\ (pc = "done" /\ count >= 1 /\ context \notin DOMAIN CONTEXTS) =>
       /\ trace = <<"count", "prompt">>
       /\ outcome.exc.msg = "Unknown context"
  /\ (pc = "done" /\ outcome.exc.type = "RuntimeError") =>
       /\ trace = SubSeq(StepOrder, 1, 3)
       /\ provider_calls = 1
  /\ (pc = "done" /\ Did("parse") /\ ~Loads(response).ok) =>
       /\ trace = SubSeq(StepOrder, 1, 4)
       /\ outcome.exc.msg = "AI response is not valid JSON"
       /\ outcome.exc.type # "ValidationError"
       /\ validator_calls = 0
  /\ (pc = "done" /\ outcome.exc.type \in {"ValidationError", "TypeError"}) =>
       /\ trace = StepOrder
       /\ Loads(response).ok
  /\ pc = "validate" =>
       /\ ~Did("validate")
       /\ CountMismatch(records, count) <=> (CountWarning \in Range(log))

C25_Witness ==
  /\ pc = "done"
  /\ trace = <<"count">>
  /\ count < 1
  /\ context = "nonexistent"
  /\ outcome.kind = "raise"
  /\ outcome.exc.msg = "count must be >= 1"

(***************************************************************************)
(* Responses without records                                               *)
(***************************************************************************)
\* the parsed value is an empty array, or a mapping whose first array-valued
\* entry is empty
EmptyRecordList(d) ==
  \/ IsList(d) /\ d.v = <<>>
  \/ /\ IsDict(d)
     /\ \E i \in 1..Len(d.v) :
          /\ IsList(d.v[i]) /\ d.v[i].v = <<>>
          /\ \A j \in 1..(i - 1) : ~IsList(d.v[j])

\* C27: when the parsed response is an empty array, or a mapping whose first
\* array-valued entry is empty, generate with count >= 1 returns the empty
\* list without error, with validate=True too; the shortfall shows only in
\* the count-mismatch warning.
C27_EmptyListReturned ==
  (Did("normalize") /\ EmptyRecordList(data)) =>
    /\ count >= 1
    /\ records = <<>>
    /\ CountWarning \in Range(log)
    /\ \A i \in 1..Len(log) : log[i].level # "ERROR"
    /\ trace[Len(trace)] = "normalize" => pc = "validate" /\ outcome = NoOutcome
    /\ pc = "done" =>
         /\ outcome = Returned(<<>>)
         /\ validator_calls = (IF validate THEN 1 ELSE 0)

C27_Witness ==
  /\ pc = "done"
  /\ validate
  /\ count = 2
  /\ IsDict(data)
  /\ Len(data.v) = 3
  /\ EmptyRecordList(data)
  /\ validator_calls = 1
  /\ outcome = Returned(<<>>)

(***************************************************************************)
(* generate answered with the context's own example record                 *)
(***************************************************************************)
\* generate(c, count=1, validate=v) for every built-in context c, the provider
\* answering json.dumps of the example record, one bare JSON object
ExampleNext ==
  \/ \E c \in Range(ContextNames), v \in BOOLEAN : Call(c, 1, v)
  \/ CheckCount
  \/ BuildPrompt
  \/ (pc = "provider" /\ ProviderReturns(Dumps(registry[context].sample)))
  \/ ParseJson
  \/ Normalize
  \/ Validate
  \/ Finish

ExampleSpec == Init /\ [][ExampleNext]_vars

\* the example record holds an array-valued top-level field
HoldsArray(sample) == \E i \in 1..Len(sample.v) : IsList(sample.v[i])

\* the value of the first array-valued top-level field
FirstArray(sample) ==
  sample.v[CHOOSE i \in 1..Len(sample.v) :
             /\ IsList(sample.v[i])
             /\ \A j \in 1..(i - 1) : ~IsList(sample.v[j])].v

\* C26 as stated: for every built-in context, when the provider answers with
\* the example record as one bare JSON object, generate(context, count=1,
\* validate=True) returns the one-element list holding that record.
C26_ExampleAlwaysReturned ==
  (pc = "done" /\ validate /\ raw = Dumps(CONTEXTS[context].sample)) =>
    outcome = Returned(<<CONTEXTS[context].sample>>)

\* C26 amended: the one-element list is returned for every built-in context
\* whose example record holds no array-valued top-level field; for an example
\* that holds one, the elements of its first array are taken as the records,
\* validate=True fails with the ValidationError and validate=False returns
\* those elements.
C26_ExampleReturnedUnlessItHoldsAnArray ==
  (pc = "done" /\ raw = Dumps(CONTEXTS[context].sample)) =>
    LET sample == CONTEXTS[context].sample IN
    /\ data = sample
    /\ ~HoldsArray(sample) =>
         /\ records = <<sample>>
         /\ outcome = Returned(<<sample>>)
         /\ \A i \in 1..Len(log) : log[i].level # "WARNING"
    /\ HoldsArray(sample) =>
         /\ records = FirstArray(sample)
         /\ validate =>
              /\ outcome.kind = "raise"
              /\ outcome.exc.type = "ValidationError"
              /\ Len(outcome.exc.invalid_records) = Len(records)
         /\ ~validate => outcome = Returned(FirstArray(sample))

C26_Witness ==
  /\ pc = "done"
  /\ validate
  /\ context = "logistics_shipment"
  /\ raw = Dumps(CONTEXTS[context].sample)
  /\ outcome = Returned(<<CONTEXTS[context].sample>>)

(***************************************************************************)
(* Fence stripping applied twice                                           *)
(***************************************************************************)
\* the text has no whitespace at its two ends
Trimmed(t) == t = <<>> \/ (~IsSpace(t[1]) /\ ~IsSpace(t[Len(t)]))

\* the text begins with an opening fence line (three backticks and the rest
\* of their line) or ends with a closing marker
StillFenced(t) ==
  \/ BeginsWithFence(t) /\ HasLineBreak(t)
  \/ EndsWithFence(t)

\* C28 as stated: stripping the result of a stripping changes nothing, and the
\* result never begins with an opening fence line, never ends with a closing
\* marker and has no whitespace at its ends.
C28_StrippingIdempotent ==
  pc = "stripped twice" =>
    /\ outcome.value = response
    /\ ~StillFenced(response)
    /\ Trimmed(response)

\* C28 amended: the result of fence stripping never has whitespace at its
\* ends; stripping it again returns it unchanged exactly when it neither
\* begins with an opening fence line nor ends with a closing marker, and
\* otherwise removes one more marker.
C28_IdempotentUnlessStillFenced ==
  /\ pc \in {"stripped", "stripped twice"} => Trimmed(response)
  /\ pc = "stripped twice" =>
       /\ Trimmed(outcome.value)
       /\ ~StillFenced(response) <=> outcome.value = response
       /\ StillFenced(response) =>
            /\ Len(outcome.value) < Len(response)
            /\ outcome.value = InnerText(response)

C28_Witness ==
  /\ pc = "stripped twice"
  /\ HasFence(raw)
  /\ raw # response
  /\ ~StillFenced(response)
  /\ response # <<>>
  /\ outcome.value = response

C28_WitnessStillFenced ==
  /\ pc = "stripped twice"
  /\ StillFenced(response)
  /\ outcome.value # response

(***************************************************************************)
(* ai_providers.py: OpenAIProvider.generate and AnthropicProvider.generate *)
(***************************************************************************)
\* ai_providers.py:13-16
DEFAULT_SYSTEM_PROMPT == "You are a test data generator that returns JSON arrays."

\* config.py:71 through test_ai_providers.py:147  a max_tokens set by the
\* environment
OtherMaxTokens == 4096

\* the generators whose provider is called: both backends, two token limits
ProviderGenerators ==
  { Generator(name, DEFAULT_MODELS[name], "0.7", limit) :
      name \in DOMAIN DEFAULT_MODELS, limit \in {DefaultMaxTokens, OtherMaxTokens} }

\* what the API client does with a request: it raises an exception whose
\* str() is msg (a sequence of words), or it returns a response.  The blocks
\* of a response are its choices (OpenAI; none stands for message.content is
\* None) or its content blocks (Anthropic).
ApiRaises(msg) == [kind |-> "raise", msg |-> msg, blocks |-> <<>>]
ApiResponds(blocks) == [kind |-> "response", msg |-> <<>>, blocks |-> blocks]
Block(text) == [none |-> FALSE, text |-> text]
NoneBlock == [none |-> TRUE, text |-> <<>>]

ApiErrors ==
  { <<"Request", "timed", "out">>, <<"Connection", "Timed", "Out">>,
    <<"Error", "code", "429", "rate", "limit">>, <<"server", "error">>,
    <<"timed">>, <<"out", "timed">> }

ProviderTexts ==
  { SmallBody, Dumps(JDict(<<>>, <<>>)), <<Word("hello")>>,
    FENCE \o <<Word("json"), NL>> \o SmallBody \o <<NL>> \o FENCE }

ApiAnswers(cls) ==
       {ApiRaises(msg) : msg \in ApiErrors}
  \cup {ApiResponds(<<>>)}
  \cup {ApiResponds(<<Block(t)>>) : t \in ProviderTexts \cup {<<>>}}
  \cup {ApiResponds(<<Block(<<>>), Block(SmallBody)>>)}
  \cup (IF cls = "openai" THEN {ApiResponds(<<NoneBlock>>)} ELSE {})

\* str.lower() of a word of an exception message
Lower(word) ==
  CASE word = "Timed" -> "timed"
    [] word = "Out" -> "out"
    [] word = "Request" -> "request"
    [] word = "Connection" -> "connection"
    [] word = "Error" -> "error"
    [] OTHER -> word

\* "timed out" in str(e).lower()
TimedOut(msg) ==
  \E i \in 1..(Len(msg) - 1) : Lower(msg[i]) = "timed" /\ Lower(msg[i + 1]) = "out"

\* ai_providers.py:67-76 and 105-113  the except clause of both backends
ApiFailure(msg) ==
  IF TimedOut(msg)
  THEN Raised(Exc("RuntimeError", "timed out", 0, <<>>))
  ELSE Raised(Exc("RuntimeError", "Failed to generate data", 0, <<>>))

EmptyResponse == Raised(Exc("RuntimeError", "returned an empty response", 0, <<>>))

\* ai_providers.py:56-65  the request OpenAIProvider.generate sends
OpenAIRequest(self, p, system_prompt) ==
  [model |-> self.model, temperature |-> self.temperature,
   max_tokens |-> self.max_tokens, system |-> "",
   response_format |-> "json_object",
   messages |-> (IF system_prompt # ""
                 THEN <<[role |-> "system", content |-> system_prompt]>>
                 ELSE <<>>) \o <<[role |-> "user", content |-> p]>>]

\* ai_providers.py:66-83  OpenAIProvider.generate, given what the client did
OpenAIGenerate(answer) ==
  IF answer.kind = "raise" THEN ApiFailure(answer.msg)
  ELSE IF answer.blocks = <<>>
  THEN Raised(Exc("IndexError", "list index out of range", 0, <<>>))
  ELSE IF answer.blocks[1].none THEN EmptyResponse
  ELSE Returned(answer.blocks[1].text)

\* ai_providers.py:98-104  the request AnthropicProvider.generate sends
AnthropicRequest(self, p, system_prompt) ==
  [model |-> self.model, temperature |-> self.temperature,
   max_tokens |-> self.max_tokens, system |-> system_prompt,
   response_format |-> "",
   messages |-> <<[role |-> "user", content |-> p]>>]

\* ai_providers.py:97-116  AnthropicProvider.generate, given what the client
\* did
AnthropicGenerate(answer) ==
  IF answer.kind = "raise" THEN ApiFailure(answer.msg)
  ELSE IF answer.blocks = <<>> THEN EmptyResponse
  ELSE Returned(answer.blocks[1].text)

ProviderInit ==
  /\ pc = "ready"
  /\ gen \in ProviderGenerators
  /\ prompt \in {[user |-> "Generate 2 records", system_prompt |-> s] :
                   s \in {DEFAULT_SYSTEM_PROMPT, "", "custom system"}}
  /\ context = ""
  /\ count = 0
  /\ validate = TRUE
  /\ raw = <<>>
  /\ response = <<>>
  /\ data = JNull
  /\ records = <<>>
  /\ outcome = NoOutcome
  /\ provider_calls = 0
  /\ validator_calls = 0
  /\ log = <<>>
  /\ trace = <<>>
  /\ registry = CONTEXTS
  /\ NothingElse

ApiErrorLog(answer) ==
  IF answer.kind = "raise"
  THEN <<LogEvent("ERROR", "API error", 0, 0, answer.msg)>>
  ELSE <<>>

\* gen.provider.generate(prompt, system_prompt) on an OpenAIProvider; data
\* keeps the request sent and what the client did with it
OpenAICall(answer) ==
  /\ pc = "ready"
  /\ gen.provider.cls = "openai"
  /\ trace' = <<"OpenAIProvider.generate">>
  /\ data' = [request |-> OpenAIRequest(gen.provider, prompt.user, prompt.system_prompt),
              answer |-> answer]
  /\ log' = ApiErrorLog(answer)
  /\ outcome' = OpenAIGenerate(answer)
  /\ provider_calls' = provider_calls + 1
  /\ pc' = "answered"
  /\ UNCHANGED <<context, count, validate, prompt, raw, response, records,
                 validator_calls>>
  /\ UNCHANGED <<registry, gen>>
  /\ UNCHANGED others

\* gen.provider.generate(prompt, system_prompt) on an AnthropicProvider
AnthropicCall(answer) ==
  /\ pc = "ready"
  /\ gen.provider.cls = "anthropic"
  /\ trace' = <<"AnthropicProvider.generate">>
  /\ data' = [request |-> AnthropicRequest(gen.provider, prompt.user, prompt.system_prompt),
              answer |-> answer]
  /\ log' = ApiErrorLog(answer)
  /\ outcome' = AnthropicGenerate(answer)
  /\ provider_calls' = provider_calls + 1
  /\ pc' = "answered"
  /\ UNCHANGED <<context, count, validate, prompt, raw, response, records,
                 validator_calls>>
  /\ UNCHANGED <<registry, gen>>
  /\ UNCHANGED others

ProviderNext ==
  \/ \E answer \in ApiAnswers("openai") : OpenAICall(answer)
  \/ \E answer \in ApiAnswers("anthropic") : AnthropicCall(answer)

ProviderSpec == ProviderInit /\ [][ProviderNext]_vars

\* the response holds no content: no choice or block at all, a None content,
\* or an empty text
NoContent(answer) ==
  /\ answer.kind = "response"
  /\ \/ answer.blocks = <<>>
     \/ answer.blocks[1].none
     \/ answer.blocks[1].text = <<>>

\* C24: each backend's generate either returns text or raises a RuntimeError:
\* the timeout error for a timeout, the failure error for any other failure
\* of the API call, and the empty-response error, never an empty result, for
\* a response that holds no content.
C24_ProviderReturnsTextOrRaises ==
  pc = "answered" =>
    /\ outcome.kind = "raise" => outcome.exc \in ProviderErrors
    /\ outcome.kind = "return" => outcome.value # <<>>
    /\ (data.answer.kind = "raise" /\ TimedOut(data.answer.msg)) =>
         outcome = Raised(Exc("RuntimeError", "timed out", 0, <<>>))
    /\ (data.answer.kind = "raise" /\ ~TimedOut(data.answer.msg)) =>
         outcome = Raised(Exc("RuntimeError", "Failed to generate data", 0, <<>>))
    /\ NoContent(data.answer) => outcome = EmptyResponse

(***************************************************************************)
(* generator.py: TestDataGenerator.generate as a whole                     *)
(***************************************************************************)
\* what the one provider invocation of a call does: it returns a text or
\* raises
Answers(text) == [kind |-> "text", text |-> text, exc |-> NoExc]
Fails(exc) == [kind |-> "raise", text |-> <<>>, exc |-> exc]

\* generator.py:115-163  what generate(c, count=n, validate=v) returns or
\* raises when its provider invocation, if it gets that far, does answer
generate(c, n, v, answer) ==
  IF CountInvalid(n)
  THEN Raised(Exc("ValueError", "count must be >= 1", n, <<>>))
  ELSE IF ~get_prompt(c, n).ok THEN Raised(get_prompt(c, n).exc)
  ELSE IF answer.kind = "raise" THEN Raised(answer.exc)
  ELSE LET stripped == _strip_markdown_fences(answer.text)
           parsed == Loads(stripped)
       IN IF ~parsed.ok THEN Raised(InvalidJson(JSONDecodeError(stripped)))
          ELSE ValidateOutcome(c, ExtractRecords(parsed.val), RunsValidator(v))

\* generate gets as far as its provider invocation
ReachesProvider(c, n) == ~CountInvalid(n) /\ get_prompt(c, n).ok

\* what the provider invocation of the call in progress did
AnswerOfCall ==
  IF trace = SubSeq(StepOrder, 1, 3) /\ outcome.kind = "raise"
  THEN Fails(outcome.exc)
  ELSE Answers(raw)

\* the outcome of a finished call is that of generate applied to the call's
\* own arguments and to the answer of its own provider invocation
OutcomeFromArguments ==
  pc = "done" => outcome = generate(context, count, validate, AnswerOfCall)

\* C22: generate keeps no state between calls: no step of any call in a
\* sequence of calls changes the registry or the generator's configuration
\* (provider, model, temperature, max tokens, in the config and in the
\* provider object), and the outcome of each call is determined by its own
\* arguments and the provider response of that call.
C22_GenerateKeepsNoState ==
  /\ [][registry' = registry /\ gen' = gen]_vars
  /\ [](registry = CONTEXTS /\ gen = DefaultGenerator)
  /\ []OutcomeFromArguments

C22_Witness ==
  /\ pc = "done"
  /\ Len(records) < count
  /\ outcome = Returned(records)
  /\ outcome = generate(context, count, validate, Answers(raw))
  /\ gen = DefaultGenerator
  /\ registry = CONTEXTS

(***************************************************************************)
(* cli.py: the generate command                                            *)
(***************************************************************************)
\* no TestDataGenerator has been created yet
NoGenerator == Generator("", "", "", 0)

\* the max_tokens the generator is created with (the environment, or
\* --max-tokens through _apply_overrides)
CliMaxTokens == {100, 200, DefaultMaxTokens}

\* cli.py:82-83  gen = TestDataGenerator()
CliGenerators ==
  {Generator("openai", DEFAULT_MODELS["openai"], "0.7", m) : m \in CliMaxTokens}

\* cli.py:84  what TestDataGenerator() raises: config.py:61 and
\* ai_providers.py:51
CreateFailures ==
  { Exc("ValueError", "API key not found", 0, <<>>),
    Exc("ImportError", "openai package is required", 0, <<>>) }

\* what the command writes to stderr: one entry per message, with the number
\* of lines it takes
Message(kind, text) ==
  [kind |-> kind, prefix |-> "", text |-> text, lines |-> 1]

\* click.ClickException.show(): "Error: " and the message, on one line
ErrorLine(text) == Message("Error", text)

\* click.Abort: "Aborted!"
AbortedLine == Message("Aborted", "Aborted!")

\* an exception nothing catches: the interpreter's traceback, several lines
Traceback(exc) ==
  [kind |-> "Traceback", prefix |-> "", text |-> exc.type, lines |-> 3]

\* exit status of a command ended by an exception: click exits with 1 for a
\* ClickException and for Abort, the interpreter with 1 for a traceback
ExitFailure == 1

\* int(a * 1.3)
TimesOnePointThree(a) ==
  IF a >= 0 THEN (a * 13) \div 10 ELSE 0 - (((0 - a) * 13) \div 10)

\* cli.py:112-113  sample_tokens = len(json.dumps(schema.sample)) // 3;
\* estimated = int(sample_tokens * count * 1.3)
EstimatedTokens(schema, n) ==
  TimesOnePointThree((CharLen(Dumps(schema.sample)) \div 3) * n)

\* cli.py:118-119 and 133-134
SetMaxTokens(g, limit) ==
  [g EXCEPT !.provider.max_tokens = limit, !.config.max_tokens = limit]

\* cli.py:125-127  type=click.Choice([...])
Choices == {"increase", "continue", "cancel"}

\* mutant of _adjust_max_tokens: the interactive increase raises the config's
\* limit and leaves the provider's
_adjust_max_tokens_ConfigOnly(g, schema, n, quiet, choice) ==
  LET estimated == EstimatedTokens(schema, n)
      current == g.config.max_tokens
      asked == Message("Estimate", "Estimated tokens needed")
  IN IF estimated <= current
     THEN [gen |-> g, abort |-> FALSE, prompted |-> FALSE, echo |-> <<>>]
     ELSE IF quiet
     THEN [gen |-> SetMaxTokens(g, estimated), abort |-> FALSE,
           prompted |-> FALSE, echo |-> <<>>]
     ELSE IF choice = "cancel"
     THEN [gen |-> g, abort |-> TRUE, prompted |-> TRUE, echo |-> <<asked>>]
     ELSE IF choice = "increase"
     THEN [gen |-> [g EXCEPT !.config.max_tokens = estimated], abort |-> FALSE,
           prompted |-> TRUE,
           echo |-> <<asked, Message("Increased", "max_tokens set to")>>]
     ELSE [gen |-> g, abort |-> FALSE, prompted |-> TRUE, echo |-> <<asked>>]

\* cli.py:106-138  _adjust_max_tokens(gen, schema, count, quiet), the user
\* answering the prompt, if there is one, with choice: the generator
\* afterwards, whether click.Abort is raised, and what is echoed
_adjust_max_tokens(g, schema, n, quiet, choice) ==
  LET estimated == EstimatedTokens(schema, n)
      current == g.config.max_tokens
      asked == Message("Estimate", "Estimated tokens needed")
  IN IF estimated <= current
     THEN [gen |-> g, abort |-> FALSE, prompted |-> FALSE, echo |-> <<>>]
     ELSE IF quiet
     THEN [gen |-> SetMaxTokens(g, estimated), abort |-> FALSE,
           prompted |-> FALSE, echo |-> <<>>]
     ELSE IF choice = "cancel"
     THEN [gen |-> g, abort |-> TRUE, prompted |-> TRUE, echo |-> <<asked>>]
     ELSE IF choice = "increase"
     THEN [gen |-> SetMaxTokens(g, estimated), abort |-> FALSE,
           prompted |-> TRUE,
           echo |-> <<asked, Message("Increased", "max_tokens set to")>>]
     ELSE [gen |-> g, abort |-> FALSE, prompted |-> TRUE, echo |-> <<asked>>]

\* what the provider may do in a command about context c
CliAnswers(c) ==
  LET sample == CONTEXTS[c].sample
      partial == JDict(<<sample.k[1]>>, <<JStr(<<"Test">>)>>)
      body == Dumps(JList(<<sample>>))
  IN   {Answers(Dumps(x)) :
          x \in { JList(<<sample>>), JList(<<sample, sample>>),
                  JDict(<< <<"data">> >>, <<JList(<<sample>>)>>),
                  JList(<<>>), JList(<<partial>>), JList(<<JNum("42")>>),
                  JList(<<JStr(<<"hello">>)>>), sample }}
  \cup {Answers(FENCE \o <<Word("json"), NL>> \o body \o <<NL>> \o FENCE),
        Answers(SubSeq(body, 1, Len(body) - 1))}
  \cup {Fails(e) : e \in ProviderErrors}
  \cup {Fails(Exc("IndexError", "list index out of range", 0, <<>>))}

\* the command as invoked: its options, and where it stands
CliInit ==
  /\ cli \in {[pc |-> "lookup", context |-> c, count |-> n, output |-> o,
               fmt |-> f, no_validate |-> nv, quiet |-> q, choice |-> "",
               exit_code |-> 0] :
                c \in CallContexts, n \in Counts, o \in BOOLEAN,
                f \in {"json", "csv"}, nv \in BOOLEAN, q \in BOOLEAN}
  /\ gen = NoGenerator
  /\ registry = CONTEXTS
  /\ stdout = <<>>
  /\ stderr = <<>>
  /\ out_file = NoFile
  /\ spinner = NoSpinner
  /\ calls = NoCalls
  /\ pc = "idle"
  /\ context = ""
  /\ count = 0
  /\ validate = TRUE
  /\ prompt = NoPrompt
  /\ raw = <<>>
  /\ response = <<>>
  /\ data = JNull
  /\ records = <<>>
  /\ outcome = NoOutcome
  /\ provider_calls = 0
  /\ validator_calls = 0
  /\ log = <<>>
  /\ trace = <<>>

\* the variables of a generate call, which the command reaches only through
\* _run_generation
callVars ==
  <<pc, context, count, validate, prompt, raw, response, data, records,
    outcome, provider_calls, validator_calls, log, trace>>

\* the command ends with an exception: the messages go to stderr
CliFails(messages) ==
  /\ cli' = [cli EXCEPT !.pc = "exited", !.exit_code = ExitFailure]
  /\ stderr' = stderr \o messages

\* cli.py:77-80
CliLookup ==
  /\ cli.pc = "lookup"
  /\ LET got == get_context_schema(cli.context) IN
     IF ~got.ok
     THEN CliFails(<<ErrorLine(got.exc.msg)>>)
     ELSE /\ cli' = [cli EXCEPT !.pc = "create"]
          /\ UNCHANGED stderr
  /\ UNCHANGED <<callVars, registry, gen, stdout, out_file, spinner, calls>>

\* cli.py:82-85  the generator is created
CliCreate(made) ==
  /\ cli.pc = "create"
  /\ gen' = made
  /\ cli' = [cli EXCEPT !.pc = "adjust"]
  /\ UNCHANGED <<callVars, registry, stdout, stderr, out_file, spinner, calls>>

\* cli.py:82-85  TestDataGenerator() raises
CliCreateFails(exc) ==
  /\ cli.pc = "create"
  /\ CliFails(<<ErrorLine(exc.msg)>>)
  /\ UNCHANGED <<callVars, registry, gen, stdout, out_file, spinner, calls>>

\* cli.py:87, 106-138
CliAdjust(choice) ==
  /\ cli.pc = "adjust"
  /\ LET did == _adjust_max_tokens(gen, registry[cli.context], cli.count,
                                   cli.quiet, choice) IN
     /\ gen' = did.gen
     /\ IF did.abort
        THEN /\ cli' = [cli EXCEPT !.pc = "exited", !.exit_code = ExitFailure,
                                   !.choice = choice]
             /\ stderr' = stderr \o did.echo \o <<AbortedLine>>
        ELSE /\ cli' = [cli EXCEPT !.pc = "run",
                                   !.choice = IF did.prompted THEN choice ELSE ""]
             /\ stderr' = stderr \o did.echo
  /\ UNCHANGED <<callVars, registry, stdout, out_file, spinner, calls>>

\* cli.py:145-150  what _run_generation does with an exception of generate:
\* a ValueError and a RuntimeError become a ClickException, anything else
\* passes through uncaught
RunFailure(exc) ==
  IF IsInstance(exc, "ValueError") THEN <<ErrorLine(exc.msg)>>
  ELSE IF IsInstance(exc, "RuntimeError")
  THEN <<[ErrorLine(exc.msg) EXCEPT !.prefix = "API error: "]>>
  ELSE <<Traceback(exc)>>

\* cli.py:88, 141-150  _run_generation: gen.generate(context, count=count,
\* validate=not no_validate), the provider answering with answer
CliRunGeneration(answer) ==
  /\ cli.pc = "run"
  /\ LET result == generate(cli.context, cli.count, ~cli.no_validate, answer) IN
     /\ context' = cli.context
     /\ count' = cli.count
     /\ validate' = ~cli.no_validate
     /\ raw' = answer.text
     /\ provider_calls' =
          (IF ReachesProvider(cli.context, cli.count) THEN 1 ELSE 0)
     /\ outcome' = result
     /\ records' = result.value
     /\ IF result.kind = "return"
        THEN /\ cli' = [cli EXCEPT !.pc = "report"]
             /\ UNCHANGED stderr
        ELSE CliFails(RunFailure(result.exc))
  /\ UNCHANGED <<pc, prompt, response, data, validator_calls, log, trace>>
  /\ UNCHANGED <<registry, gen, stdout, out_file, spinner, calls>>

\* cli.py:89, 153-167
CliReport ==
  /\ cli.pc = "report"
  /\ stderr' = (IF cli.quiet THEN stderr
                ELSE IF Len(records) < cli.count
                THEN Append(stderr, Message("Warning", "Requested records but received"))
                ELSE Append(stderr, Message("Generated", "Generated records.")))
  /\ cli' = [cli EXCEPT !.pc = "emit"]
  /\ UNCHANGED <<callVars, registry, gen, stdout, out_file, spinner, calls>>

\* cli.py:265-298  _records_to_csv fails on a record without items()
CsvRaises(recs) == \E i \in 1..Len(recs) : ~IsDict(recs[i])

\* cli.py:172  the text of the records: json.dumps(records, indent=2), kept
\* without its indentation, or the rows of the CSV
FormatRecords(recs, fmt) ==
  IF fmt = "csv" THEN [fmt |-> "csv", text |-> <<>>, rows |-> recs]
  ELSE [fmt |-> "json", text |-> Dumps(JList(recs)), rows |-> <<>>]

\* cli.py:90, 170-179
CliEmit ==
  /\ cli.pc = "emit"
  /\ IF cli.fmt = "csv" /\ CsvRaises(records)
     THEN /\ CliFails(<<Traceback(Exc("AttributeError", "object has no attribute 'items'",
                                       0, <<>>))>>)
          /\ UNCHANGED <<stdout, out_file>>
     ELSE /\ cli' = [cli EXCEPT !.pc = "exited", !.exit_code = 0]
          /\ IF cli.output
             THEN /\ out_file' = [written |-> TRUE,
                                  text |-> FormatRecords(records, cli.fmt)]
                  /\ stderr' = (IF cli.quiet THEN stderr
                                ELSE Append(stderr, Message("Saved", "Saved to")))
                  /\ UNCHANGED stdout
             ELSE /\ stdout' = Append(stdout, FormatRecords(records, cli.fmt))
                  /\ UNCHANGED <<stderr, out_file>>
  /\ UNCHANGED <<callVars, registry, gen, spinner, calls>>

CliNext ==
  \/ CliLookup
  \/ \E made \in CliGenerators : CliCreate(made)
  \/ \E exc \in CreateFailures : CliCreateFails(exc)
  \/ \E choice \in Choices : CliAdjust(choice)
  \/ /\ cli.pc = "run"
     /\ \E answer \in (IF ReachesProvider(cli.context, cli.count)
                       THEN CliAnswers(cli.context)
                       ELSE {Answers(<<>>)}) : CliRunGeneration(answer)
  \/ CliReport
  \/ CliEmit

CliSpec == CliInit /\ [][CliNext]_vars

(***************************************************************************)
(* Properties of the generate command                                      *)
(***************************************************************************)
\* the command has written record data
DataWritten == stdout # <<>> \/ out_file.written

\* the command ended with a non-zero exit status and a one-line message
EndedWithMessage ==
  /\ cli.pc = "exited"
  /\ cli.exit_code # 0
  /\ stderr # <<>>
  /\ stderr[Len(stderr)].kind = "Error"
  /\ stderr[Len(stderr)].lines = 1

\* C23: whenever the core generate fails (unknown context, invalid count,
\* provider error, invalid response format, schema validation error, or an
\* error raised while validating malformed records), the command ends with a
\* non-zero exit status and a single-line message, and no record data is
\* written to stdout or to the output file; data is written only after
\* generate has returned.
C23_CoreErrorsEndCleanly ==
  /\ (cli.pc = "exited" /\ ~get_context_schema(cli.context).ok) =>
       EndedWithMessage /\ ~DataWritten
  /\ (cli.pc = "exited" /\ outcome.kind = "raise") =>
       EndedWithMessage /\ ~DataWritten
  /\ DataWritten => outcome.kind = "return"

\* the part of C23 the code satisfies: the errors generate raises as
\* ValueError or RuntimeError
C23_CaughtErrorsEndCleanly ==
  /\ (cli.pc = "exited" /\ ~get_context_schema(cli.context).ok) =>
       EndedWithMessage /\ ~DataWritten
  /\ (cli.pc = "exited" /\ outcome.kind = "raise"
        /\ outcome.exc.type \notin {"TypeError", "IndexError"}) =>
       EndedWithMessage /\ ~DataWritten
  /\ (cli.pc = "exited" /\ outcome.kind = "raise") =>
       cli.exit_code # 0 /\ ~DataWritten
  /\ DataWritten => outcome.kind = "return"

\* what one step of _adjust_max_tokens does to the two limits
AdjustStep ==
  LET estimated == EstimatedTokens(registry[cli.context], cli.count)
      current == gen.config.max_tokens
      raises == estimated > current /\ (cli.quiet \/ cli'.choice = "increase")
  IN /\ gen'.config.max_tokens = gen'.provider.max_tokens
     /\ gen'.config.max_tokens >= current
     /\ gen'.provider.max_tokens >= gen.provider.max_tokens
     /\ raises => gen' = SetMaxTokens(gen, estimated)
     /\ ~raises => gen' = gen
     /\ (estimated <= current \/ cli'.choice = "continue") => gen' = gen
     /\ cli'.choice # "" <=> (estimated > current /\ ~cli.quiet)
     /\ cli'.choice = "cancel" =>
          /\ gen' = gen
          /\ cli'.pc = "exited"
          /\ cli'.exit_code # 0
          /\ stderr'[Len(stderr')] = AbortedLine
          /\ provider_calls' = 0
          /\ outcome' = NoOutcome

\* C29: with gen.config.max_tokens equal to gen.provider.max_tokens at the
\* start, the two are equal after _adjust_max_tokens on every path and
\* neither is lower than before; both become the estimate exactly when the
\* estimate exceeds the current limit and the command is quiet or the user
\* chose increase; they are unchanged when the estimate is within the limit
\* or the user chose continue; on cancel the command aborts with both
\* unchanged and before any provider call.
C29_MaxTokensAdjusted ==
  /\ [](gen.config.max_tokens = gen.provider.max_tokens)
  /\ [][cli.pc = "adjust" => AdjustStep]_vars
  /\ [][cli.pc \notin {"create", "adjust"} => gen' = gen]_vars
  /\ [](cli.choice = "cancel" =>
          cli.pc = "exited" /\ provider_calls = 0 /\ ~DataWritten)

C29_Witness ==
  /\ cli.pc = "run"
  /\ ~cli.quiet
  /\ cli.choice = "increase"
  /\ gen.config.max_tokens = EstimatedTokens(registry[cli.context], cli.count)
  /\ gen.provider.max_tokens = gen.config.max_tokens
  /\ gen.config.max_tokens \notin CliMaxTokens

C29_WitnessCancel ==
  /\ cli.pc = "exited"
  /\ cli.choice = "cancel"
  /\ gen.config.max_tokens \in CliMaxTokens
  /\ provider_calls = 0

(***************************************************************************)
(* cli.py: _Spinner around a call, the main thread and the spinner thread  *)
(***************************************************************************)
\* the spinner thread writes at most MaxFrames frames in a run of the model
MaxFrames == 3

\* what the call wrapped by the with statement does
SpinnerBodies ==
  { Returned(<<>>),
    Returned(<<CONTEXTS["banking_user"].sample>>),
    Raised(Exc("ValueError", "count must be >= 1", 0, <<>>)),
    Raised(Exc("RuntimeError", "timed out", 0, <<>>)),
    Raised(Exc("TypeError", "argument is not iterable", 0, <<>>)) }

\* cli.py:230-234  _Spinner(message, silent=s): the stop event is clear, there
\* is no thread; body is what the wrapped call did, once it has run
SpinnerInit ==
  /\ spinner \in {[pc |-> "created", silent |-> s, stop |-> FALSE,
                   thread |-> "none", i |-> 0, body |-> NoOutcome] :
                    s \in BOOLEAN}
  /\ stderr = <<>>
  /\ stdout = <<>>
  /\ out_file = NoFile
  /\ cli = NoCli
  /\ calls = NoCalls
  /\ gen = DefaultGenerator
  /\ registry = CONTEXTS
  /\ pc = "idle"
  /\ context = ""
  /\ count = 0
  /\ validate = TRUE
  /\ prompt = NoPrompt
  /\ raw = <<>>
  /\ response = <<>>
  /\ data = JNull
  /\ records = <<>>
  /\ outcome = NoOutcome
  /\ provider_calls = 0
  /\ validator_calls = 0
  /\ log = <<>>
  /\ trace = <<>>

\* everything but the spinner, stderr and the outcome of the with statement
besideSpinner ==
  <<pc, context, count, validate, prompt, raw, response, data, records,
    provider_calls, validator_calls, log, trace, registry, gen, cli, stdout,
    out_file, calls>>

\* cli.py:236-240  __enter__: the thread is started unless silent
SpinnerEnter ==
  /\ spinner.pc = "created"
  /\ spinner' = [spinner EXCEPT !.pc = "body",
                   !.thread = IF spinner.silent THEN "none" ELSE "waiting"]
  /\ UNCHANGED <<besideSpinner, stderr, outcome>>

\* cli.py:144  the wrapped call returns or raises
SpinnerBody(did) ==
  /\ spinner.pc = "body"
  /\ spinner' = [spinner EXCEPT !.pc = "exit", !.body = did]
  /\ UNCHANGED <<besideSpinner, stderr, outcome>>

\* cli.py:242-243  __exit__: self._stop.set()
SpinnerStop ==
  /\ spinner.pc = "exit"
  /\ spinner' = [spinner EXCEPT !.pc = "join", !.stop = TRUE]
  /\ UNCHANGED <<besideSpinner, stderr, outcome>>

\* mutant of SpinnerLeave: __exit__ does not wait for the thread
SpinnerLeave_NoJoin ==
  /\ spinner.pc = "join"
  /\ spinner' = [spinner EXCEPT !.pc = "left"]
  /\ stderr' = (IF spinner.thread = "none" THEN stderr
                ELSE Append(stderr, Message("Clear", "\\r\\033[K")))
  /\ outcome' = spinner.body
  /\ UNCHANGED besideSpinner

\* cli.py:244-247  __exit__: if there is a thread, join() returns once the
\* thread has ended, and the line is cleared; __exit__ returns None, so the
\* with statement hands on what the wrapped call returned or raised
SpinnerLeave ==
  /\ spinner.pc = "join"
  /\ spinner.thread \in {"none", "dead"}
  /\ spinner' = [spinner EXCEPT !.pc = "left"]
  /\ stderr' = (IF spinner.thread = "none" THEN stderr
                ELSE Append(stderr, Message("Clear", "\\r\\033[K")))
  /\ outcome' = spinner.body
  /\ UNCHANGED besideSpinner

\* cli.py:145-150  the caller goes on after the with statement
SpinnerCallerGoesOn ==
  /\ spinner.pc = "left"
  /\ spinner' = [spinner EXCEPT !.pc = "done"]
  /\ stderr' = (IF outcome.kind = "raise"
                THEN stderr \o RunFailure(outcome.exc)
                ELSE stderr)
  /\ UNCHANGED <<besideSpinner, outcome>>

\* cli.py:252  while not self._stop.wait(0.1): the wait ends, with the flag
\* set (the loop and the thread end) or by its timeout (a frame is due)
SpinWait ==
  /\ spinner.thread = "waiting"
  /\ spinner.stop \/ spinner.i < MaxFrames
  /\ spinner' = [spinner EXCEPT !.thread = IF spinner.stop THEN "dead" ELSE "writing"]
  /\ UNCHANGED <<besideSpinner, stderr, outcome>>

\* cli.py:253-262  one frame is written to stderr
SpinWrite ==
  /\ spinner.thread = "writing"
  /\ stderr' = Append(stderr, Message("Frame", "frame and elapsed time"))
  /\ spinner' = [spinner EXCEPT !.thread = "waiting", !.i = @ + 1]
  /\ UNCHANGED <<besideSpinner, outcome>>

\* the steps of the spinner thread
SpinThread == SpinWait \/ SpinWrite

SpinnerNext ==
  \/ SpinnerEnter
  \/ \E did \in SpinnerBodies : SpinnerBody(did)
  \/ SpinnerStop
  \/ SpinnerLeave
  \/ SpinnerCallerGoesOn
  \/ SpinWait
  \/ SpinWrite

\* a started thread is scheduled again and again, and so is the main thread
\* once join() can return
SpinnerSpec ==
  SpinnerInit /\ [][SpinnerNext]_vars /\ WF_vars(SpinThread) /\ WF_vars(SpinnerLeave)

ThreadAlive == spinner.thread \in {"waiting", "writing"}

\* no frame is written after the line was cleared on leaving the context
NoFrameAfterLeaving ==
  \A m, n \in 1..Len(stderr) :
    (m < n /\ stderr[m].kind = "Clear") => stderr[n].kind # "Frame"

SpinnerSafe ==
  /\ spinner.silent => spinner.thread = "none"
  /\ (~spinner.silent /\ spinner.pc # "created") => spinner.thread # "none"
  /\ spinner.thread = "dead" => spinner.stop
  /\ spinner.stop => spinner.pc \in {"join", "left", "done"}
  /\ spinner.pc \in {"left", "done"} =>
       /\ spinner.stop
       /\ ~ThreadAlive
       /\ outcome = spinner.body
  /\ spinner.pc \notin {"left", "done"} => outcome = NoOutcome
  /\ NoFrameAfterLeaving
  /\ spinner.silent => \A n \in 1..Len(stderr) : stderr[n].kind # "Frame"

\* C30: the spinner thread is controlled by the stop flag alone.  Not silent:
\* leaving the context, by return or by exception, sets the flag and joins
\* the thread, so the thread always ends, is not alive once the context is
\* left and writes no frame afterwards.  Silent: no thread is started.  The
\* spinner never changes or suppresses what the wrapped call returned or
\* raised.
C30_SpinnerStopsWithContext ==
  /\ []SpinnerSafe
  /\ [](spinner.stop ~> ~ThreadAlive)
  /\ [](spinner.pc = "join" ~> spinner.pc = "left")

C30_Witness ==
  /\ spinner.pc = "done"
  /\ ~spinner.silent
  /\ spinner.thread = "dead"
  /\ spinner.i >= 2
  /\ outcome.kind = "raise"
  /\ outcome.exc.type = "TypeError"
  /\ stderr[Len(stderr)].kind = "Traceback"

(***************************************************************************)
(* generator.py: generate calls running concurrently on one generator      *)
(***************************************************************************)
\* the number of calls in flight together
NumCalls == 2

CallIds == 1..NumCalls

\* the locals of a call that has not been entered; log holds the events the
\* call has handed to the module's logger, which only appends them
NoCall ==
  [pc |-> "idle", context |-> "", count |-> 0, validate |-> TRUE,
   prompt |-> NoPrompt, answer |-> Answers(<<>>), raw |-> <<>>,
   response |-> <<>>, data |-> JNull, records |-> <<>>, outcome |-> NoOutcome,
   log |-> <<>>, trace |-> <<>>]

\* the arguments of the concurrent calls
ConcArgs ==
  { <<ContextNames[1], 1, TRUE>>, <<ContextNames[1], 0, TRUE>>,
    <<"nonexistent", 1, TRUE>>, <<ContextNames[1], LargeCount + 1, FALSE>> }

\* what the provider invocation of a call may do
ConcAnswers(c) ==
  LET sample == CONTEXTS[c].sample
      partial == JDict(<<sample.k[1]>>, <<JStr(<<"Test">>)>>)
      body == Dumps(JList(<<sample>>))
  IN { Answers(FENCE \o <<Word("json"), NL>> \o body \o <<NL>> \o FENCE),
       Answers(Dumps(JList(<<partial>>))),
       Answers(SubSeq(body, 1, Len(body) - 1)),
       Fails(Exc("RuntimeError", "timed out", 0, <<>>)) }

ConcInit ==
  /\ calls = [id \in CallIds |-> NoCall]
  /\ gen = DefaultGenerator
  /\ registry = CONTEXTS
  /\ cli = NoCli
  /\ stdout = <<>>
  /\ stderr = <<>>
  /\ out_file = NoFile
  /\ spinner = NoSpinner
  /\ pc = "idle"
  /\ context = ""
  /\ count = 0
  /\ validate = TRUE
  /\ prompt = NoPrompt
  /\ raw = <<>>
  /\ response = <<>>
  /\ data = JNull
  /\ records = <<>>
  /\ outcome = NoOutcome
  /\ provider_calls = 0
  /\ validator_calls = 0
  /\ log = <<>>
  /\ trace = <<>>

\* everything but the locals of the concurrent calls
besideCalls ==
  <<pc, context, count, validate, prompt, raw, response, data, records,
    outcome, provider_calls, validator_calls, log, trace, registry, gen, cli,
    stdout, stderr, out_file, spinner>>

\* the call raises exc at the step it stands at
LocalRaise(l, exc) ==
  [l EXCEPT !.pc = "done", !.outcome = Raised(exc), !.trace = Append(@, l.pc)]

\* generator.py:115-163  one step of a call on its own locals: the count
\* check, the prompt, the parse, the extraction or the validation
LocalStep(l) ==
  CASE l.pc = "count" ->
         IF CountInvalid(l.count)
         THEN LocalRaise(l, Exc("ValueError", "count must be >= 1", l.count, <<>>))
         ELSE [l EXCEPT !.pc = "prompt", !.trace = Append(@, "count"),
                        !.log = @
                          \o (IF l.count > LargeCount
                              THEN <<LogEvent("WARNING", "may exceed token limits",
                                              l.count, 0, <<>>)>>
                              ELSE <<>>)
                          \o <<LogEvent("INFO", "Generating records for context",
                                        l.count, 0, <<>>)>>]
    [] l.pc = "prompt" ->
         IF ~get_prompt(l.context, l.count).ok
         THEN LocalRaise(l, get_prompt(l.context, l.count).exc)
         ELSE [l EXCEPT !.pc = "provider", !.trace = Append(@, "prompt"),
                        !.prompt = get_prompt(l.context, l.count).prompt,
                        !.log = Append(@, LogEvent("DEBUG", "Sending prompt",
                                                   0, 0, <<>>))]
    [] l.pc = "parse" ->
         IF ~Loads(l.response).ok
         THEN [LocalRaise(l, InvalidJson(JSONDecodeError(l.response)))
                 EXCEPT !.log = @ \o
                   << LogEvent("ERROR", "Failed to parse AI response as JSON",
                               0, 0, <<>>),
                      LogEvent("DEBUG", "Response preview", 0, 0,
                               Prefix(l.response, PreviewLen)) >>]
         ELSE [l EXCEPT !.pc = "normalize", !.trace = Append(@, "parse"),
                        !.data = Loads(l.response).val]
    [] l.pc = "normalize" ->
         [l EXCEPT !.pc = "validate", !.trace = Append(@, "normalize"),
                   !.records = ExtractRecords(l.data),
                   !.log = @
                     \o <<LogEvent("INFO", "Successfully generated records",
                                   Len(ExtractRecords(l.data)), 0, <<>>)>>
                     \o (IF CountMismatch(ExtractRecords(l.data), l.count)
                         THEN <<LogEvent("WARNING", "Requested records but received",
                                         l.count, Len(ExtractRecords(l.data)), <<>>)>>
                         ELSE <<>>)]
    [] l.pc = "validate" ->
         [l EXCEPT !.pc = "done", !.trace = Append(@, "validate"),
                   !.outcome = ValidateOutcome(l.context, l.records,
                                               RunsValidator(l.validate))]

\* generator.py:128  the provider invocation of a call answers
LocalAnswer(l, answer) ==
  IF answer.kind = "raise"
  THEN [LocalRaise(l, answer.exc) EXCEPT !.answer = answer]
  ELSE [l EXCEPT !.pc = "parse", !.trace = Append(@, "provider"),
                 !.answer = answer, !.raw = answer.text,
                 !.response = _strip_markdown_fences(answer.text)]

\* call id is entered: gen.generate(c, count=n, validate=v)
ConcCall(id, c, n, v) ==
  /\ calls[id].pc = "idle"
  /\ calls' = [calls EXCEPT ![id] = [@ EXCEPT !.pc = "count", !.context = c,
                                                !.count = n, !.validate = v]]
  /\ UNCHANGED besideCalls

\* call id takes a step that touches its locals only
ConcStep(id) ==
  /\ calls[id].pc \in {"count", "prompt", "parse", "normalize", "validate"}
  /\ calls' = [calls EXCEPT ![id] = LocalStep(@)]
  /\ UNCHANGED besideCalls

\* mutant of ConcProvider: the provider keeps the text of its last answer in
\* one buffer for all calls, and a call waiting to parse reads that buffer
ConcProvider_SharedBuffer(id, answer) ==
  /\ calls[id].pc = "provider"
  /\ calls' = [j \in CallIds |->
                 IF j = id THEN LocalAnswer(calls[j], answer)
                 ELSE IF calls[j].pc = "parse" /\ answer.kind = "text"
                 THEN [calls[j] EXCEPT !.response = _strip_markdown_fences(answer.text)]
                 ELSE calls[j]]
  /\ UNCHANGED besideCalls

\* generator.py:128  the provider invocation of call id answers
ConcProvider(id, answer) ==
  /\ calls[id].pc = "provider"
  /\ calls' = [calls EXCEPT ![id] = LocalAnswer(@, answer)]
  /\ UNCHANGED besideCalls

ConcNext ==
  \E id \in CallIds :
    \/ \E a \in ConcArgs : ConcCall(id, a[1], a[2], a[3])
    \/ ConcStep(id)
    \/ /\ calls[id].pc = "provider"
       /\ \E answer \in ConcAnswers(calls[id].context) : ConcProvider(id, answer)

ConcSpec == ConcInit /\ [][ConcNext]_vars

\* generator.py:117-122, 153-156  the warnings a call running alone logs
warnings(c, n, answer) ==
  IF CountInvalid(n) THEN <<>>
  ELSE (IF n > LargeCount
        THEN <<LogEvent("WARNING", "may exceed token limits", n, 0, <<>>)>>
        ELSE <<>>)
       \o (IF /\ ReachesProvider(c, n)
              /\ answer.kind = "text"
              /\ Loads(_strip_markdown_fences(answer.text)).ok
              /\ CountMismatch(ExtractRecords(Loads(_strip_markdown_fences(answer.text)).val), n)
           THEN <<LogEvent("WARNING", "Requested records but received", n,
                           Len(ExtractRecords(Loads(_strip_markdown_fences(answer.text)).val)),
                           <<>>)>>
           ELSE <<>>)

\* the warnings among the events a call has logged
Warnings(events) == SelectSeq(events, LAMBDA e : e.level = "WARNING")

\* C21: when two or more generate calls run concurrently, each with its own
\* provider invocation, then under every interleaving of their steps each
\* call returns or raises exactly what it would have if run alone; the calls
\* share no mutable state.
C21_ConcurrentCallsIndependent ==
  /\ [](\A id \in CallIds :
          calls[id].pc = "done" =>
            /\ calls[id].outcome = generate(calls[id].context, calls[id].count,
                                            calls[id].validate, calls[id].answer)
            /\ Warnings(calls[id].log) = warnings(calls[id].context, calls[id].count,
                                                  calls[id].answer))
  /\ [](gen = DefaultGenerator /\ registry = CONTEXTS)
  /\ [][\E id \in CallIds : \A j \in CallIds \ {id} : calls'[j] = calls[j]]_vars

C21_Witness ==
  /\ calls[1].pc = "parse"
  /\ calls[2].pc = "done"
  /\ calls[2].trace = StepOrder
  /\ calls[1].trace = SubSeq(StepOrder, 1, 3)
  /\ calls[1].response # calls[2].response
  /\ calls[2].outcome.kind = "raise"
  /\ Loads(calls[1].response).ok
====
